---------------------------- MODULE Spec2Model ----------------------------
(***************************************************************************)
(* libregice: cache-aware register / field accessors (libregice/device.py)  *)
(* and the clock tree built on top of them (libregice/clock.py).            *)
(*                                                                         *)
(* One register of one peripheral is modelled, with the three fields of    *)
(* the test device (A1, A2, A3).  Device memory is the memory of the       *)
(* Memory Access Port (RegiceClientTest.memory): a Port read returns the   *)
(* value stored at the register's address and a Port write stores it.      *)
(*                                                                         *)
(* Spec      : the accessor state machine (read / write / flush / cache    *)
(*             configuration), every call recorded in `last`.              *)
(* SpecClock : a clock registry over the same register, queried while the  *)
(*             device changes its gate and selector bits.                  *)
(***************************************************************************)
EXTENDS Integers, Sequences, FiniteSets, TLC

VARIABLES
    memory,        \* device memory at the register's address (the Port's view)
    cached_value,  \* RegiceRegister.cached_value (None when nothing is cached)
    cache_flags,   \* RegiceRegister.cache_flags
    last,          \* the last accessor call: its arguments, result and Port traffic
    pending,       \* history: value the deferred writes issued so far add up to
    clocks,        \* the clock objects, by the name they are known by
    clk_last,      \* the last clock query and its outcome
    sim,           \* RegisterSimulation: its file, position, timer and last call
    ocd            \* the OpenOCD client: its lock, its threads and its watchpoints

vars ==
    <<memory, cached_value, cache_flags, last, pending, clocks, clk_last, sim, ocd>>

---------------------------------------------------------------------------
(* Bounds of the model *)

\* Largest value handed to Register.write / Field.write.
MaxValue == 2

\* Width in bits of the device register's initial content.
RegBits == 2

---------------------------------------------------------------------------
(* Program constants *)

\* RegiceObject.DISABLED / READ / WRITE
DISABLED == 0
READ == 1
WRITE == 2

\* Python's None, for cached_value and for absent integer attributes.  Every
\* integer the model stores is non-negative, so -1 is free to stand for it.
None == -1

CacheFlagValues == {DISABLED, READ, WRITE, READ + WRITE}

\* Field layout of TEST1.TESTA: bit offset o, bit width w.  From the content
\* the test client preloads (memory_save[0x1234] = 0x00100003) the tests read
\* A3 == 3, A2 == 1 and A1 == 0, A2.write(0) leaves 3 and A3.write(0) then
\* leaves 0, and A3 = 4 reads back 4: A3 starts at bit 0 and is three bits
\* wide or more, A2 is bit 20, and A1 is a bit outside both that is clear in
\* the preloaded content (the bit below A2 here; the tests do not fix it).
FieldDefs ==
    [A1 |-> [o |-> 19, w |-> 1],
     A2 |-> [o |-> 20, w |-> 1],
     A3 |-> [o |-> 0, w |-> 3]]

FieldNames == DOMAIN FieldDefs

---------------------------------------------------------------------------
(* Integer arithmetic of the accessors *)

\* x << n and x >> n for non-negative x
Shl(x, n) == x * (2 ^ n)
Shr(x, n) == x \div (2 ^ n)

RECURSIVE BitAnd(_, _)
\* a & b for non-negative a, b, bit by bit; sixteen low bits that are clear
\* in a or in b are clear in the result and are passed over at once.
BitAnd(a, b) ==
    IF a = 0 \/ b = 0 THEN 0
    ELSE IF a % 65536 = 0 \/ b % 65536 = 0
    THEN 65536 * BitAnd(a \div 65536, b \div 65536)
    ELSE (IF a % 2 = 1 /\ b % 2 = 1 THEN 1 ELSE 0) + 2 * BitAnd(a \div 2, b \div 2)

\* a | b for non-negative a, b: every bit set in a or in b, those set in
\* both counted once.
BitOr(a, b) == a + b - BitAnd(a, b)

\* a & ~m for non-negative a, m: ~m is the infinite two's complement of m,
\* so the result is a with the bits of m cleared.
AndNot(a, m) == a - BitAnd(a, m)

\* mask = (1 << bitWidth) - 1                       (RegiceField.read)
LowMask(f) == Shl(1, FieldDefs[f].w) - 1

\* mask = ((1 << bitWidth) - 1) << bitOffset        (RegiceField.write)
SpanMask(f) == Shl(LowMask(f), FieldDefs[f].o)

\* (value >> bitOffset) & mask.  A register that reads as None (the Port was
\* handed None by flush() and gives it back) has no field value: the shift
\* raises TypeError, which the callers record.
FieldOf(value, f) ==
    IF value = None THEN None
    ELSE BitAnd(Shr(value, FieldDefs[f].o), LowMask(f))

\* Mutant: the written value is masked to the field's width before the shift.
FieldWriteValueMasked(regvalue, f, v) ==
    BitOr(AndNot(regvalue, SpanMask(f)), Shl(BitAnd(v, LowMask(f)), FieldDefs[f].o))

\* (parent.read() & ~mask) | (value << bitOffset): the value is not masked.
FieldWriteValue(regvalue, f, v) ==
    BitOr(AndNot(regvalue, SpanMask(f)), Shl(v, FieldDefs[f].o))

---------------------------------------------------------------------------
(* RegiceRegister.read / write decisions *)

\* force or self.cached_value is None or self.cache_flags & self.READ == 0
NeedPortRead(force, cached, flags) ==
    force \/ cached = None \/ BitAnd(flags, READ) = 0

\* force or self.cache_flags & self.WRITE == 0
NeedPortWrite(force, flags) ==
    force \/ BitAnd(flags, WRITE) = 0

\* Value Register.read(force) leaves in the cache and returns.
RegReadValue(force, cached, mem, flags) ==
    IF NeedPortRead(force, cached, flags) THEN mem ELSE cached

\* Mutant: the cache is only updated by writes that stay in the cache.
WriteCacheDeferredOnly(value, force, cached, flags) ==
    IF NeedPortWrite(force, flags) THEN cached ELSE value

\* self.cached_value = value (first statement of Register.write)
WriteCache(value, force, cached, flags) == value

\* Mutant: the test of the WRITE flag is inverted.
WriteMemoryInverted(value, force, mem, flags) ==
    IF force \/ BitAnd(flags, WRITE) # 0 THEN value ELSE mem

\* Device memory after Register.write(value, force)
WriteMemory(value, force, mem, flags) ==
    IF NeedPortWrite(force, flags) THEN value ELSE mem

---------------------------------------------------------------------------
(* Records of the calls *)

NoCall ==
    [op |-> "none", f |-> "", v |-> None, force_read |-> FALSE,
     force_write |-> FALSE, ret |-> None, port_reads |-> 0, port_writes |-> 0,
     port_ret |-> None, pre_memory |-> None, pre_cached |-> None,
     opr |-> "", res |-> FALSE, wrote |-> None, err |-> ""]

\* names is the answer of a query returning clocks; tree is ClockTree.tree (a
\* nested dict, held as the set of its paths of keys), tree_made whether
\* make_tree has returned one, tree_sels the selector value every Mux had
\* and tree_clocks the registry when it was made.
NoQuery ==
    [op |-> "none", name |-> "", err |-> "", freq |-> 0, en |-> FALSE,
     parent |-> "", reads |-> 0, ok |-> FALSE, names |-> {},
     tree |-> {}, tree_made |-> FALSE, tree_sels |-> <<>>,
     tree_clocks |-> <<>>, args |-> <<>>]

\* No watchpoint in client.watchpoints.  A WatchpointTest is disabled when
\* made; read and write are the bits of its access; cb names what the
\* caller's callback does, with the field f and the value or delay v it uses;
\* fired tells that a callback which acts once has acted.  The table holds
\* one watchpoint on the register the simulation files access: it is keyed
\* by the address.
NoWp ==
    [read |-> FALSE, write |-> FALSE, enabled |-> FALSE, cb |-> "none",
     f |-> "", v |-> 0, fired |-> FALSE]

\* RegisterSimulation.__init__: no file read, section_iter None (started
\* FALSE; once made, it has consumed iter names of the list names), no
\* section, no pending goto, timer off (time 0).  now is the clock time()
\* reads; the other fields record the last call, if it was a start(), an
\* update() or a sleep(): the section it ran ("" for none), the options it
\* applied, the writes it issued, what sleep() returned, the exception
\* raised, the sections handed to the watchpoint callback, the section an
\* update() made by the callback ran, and the state the call started from.
\* second is the file the caller holds for a later read(); wp is the
\* watchpoint in the table of the client.
NoSim ==
    [file |-> <<>>, started |-> FALSE, names |-> <<>>, iter |-> 0,
     section |-> "", next_section |-> "", time |-> 0, now |-> 1,
     op |-> "none", ran |-> "", applied |-> <<>>, writes |-> 0, ret |-> FALSE,
     err |-> "", pre_time |-> 0, pre_section |-> "",
     pre_next |-> "", pre_memory |-> None, pre_started |-> FALSE,
     pre_iter |-> 0, second |-> <<>>, wp |-> NoWp, callbacks |-> <<>>,
     nested |-> ""]

\* The threads that use one RegiceOpenOCD client: the polling thread
\* (RegiceOpenOCDThread), the thread that started it and joins it, and one
\* more caller.
Threads == {"poll", "main", "user"}

\* The OpenOCD client before any call: the lock free ("" for no holder),
\* blocking False, quit False, no watchpoint.  pc is where each thread stands
\* and ret where it goes on once its Exec returns; reading is the set of
\* threads inside Readout; made counts the WatchpointOpenOCD objects created;
\* arg is the address of the watchpoint() call a thread is in; iterated is
\* the table as it was when the loop over it began; timed tells that join()
\* was called with a timeout.
\* The other fields are history: the exception the last Exec or Readout of
\* each thread raised, what the polling thread found in blocking when it
\* entered Readout, the value of quit when the running iteration of the loop
\* tested it, whether a callback ran in an iteration that started with quit
\* set, and the last test watchpoint() made of the table.
NoOcd ==
    [lock |-> "", blocking |-> FALSE, quit |-> FALSE,
     pc |-> [t \in Threads |-> IF t = "poll" THEN "loop" ELSE "idle"],
     ret |-> [t \in Threads |-> ""],
     arg |-> [t \in Threads |-> ""], iterated |-> {}, timed |-> FALSE,
     reading |-> {}, lines |-> FALSE, watchpoints |-> {}, made |-> 0,
     err |-> [t \in Threads |-> ""],
     saw_blocking |-> FALSE, started_quit |-> FALSE, late_callback |-> FALSE,
     joined |-> FALSE,
     wp |-> [op |-> "none", err |-> "", pre_table |-> {}, pre_made |-> 0]]

Count(b) == IF b THEN 1 ELSE 0

\* Is a deferred write (one kept in the cache) being issued?
IsDeferred(force) == ~NeedPortWrite(force, cache_flags)

\* History of the deferred writes: the value they add up to, starting from the
\* register's value when the first of them was issued.  A run of deferred
\* writes starts from a register whose cache agrees with the device.
PendingAfterWrite(isField, f, v) ==
    LET base == IF pending # None THEN pending
                ELSE IF cached_value \in {None, memory} THEN memory
                ELSE None
    IN  IF base = None THEN None
        ELSE IF isField THEN FieldWriteValue(base, f, v)
        ELSE v

---------------------------------------------------------------------------
(* Accessor operations *)

\* RegiceRegister.read(force)
RegisterRead(force) ==
    LET port == NeedPortRead(force, cached_value, cache_flags)
        value == RegReadValue(force, cached_value, memory, cache_flags)
    IN  /\ cached_value' = value
        /\ last' = [NoCall EXCEPT !.op = "read", !.force_read = force,
                       !.ret = value, !.port_reads = Count(port),
                       !.port_ret = IF port THEN memory ELSE None,
                       !.pre_memory = memory, !.pre_cached = cached_value]
        /\ pending' = None
        /\ UNCHANGED <<memory, cache_flags, clocks, clk_last, sim, ocd>>

\* RegiceRegister.write(value, force)
RegisterWrite(v, force) ==
    LET port == NeedPortWrite(force, cache_flags)
    IN  /\ cached_value' = WriteCache(v, force, cached_value, cache_flags)
        /\ memory' = WriteMemory(v, force, memory, cache_flags)
        /\ last' = [NoCall EXCEPT !.op = "write", !.v = v, !.force_write = force,
                       !.port_writes = Count(port),
                       !.pre_memory = memory, !.pre_cached = cached_value]
        /\ pending' = IF IsDeferred(force) THEN PendingAfterWrite(FALSE, "", v)
                      ELSE None
        /\ UNCHANGED <<cache_flags, clocks, clk_last, sim, ocd>>

\* RegiceField.read(force): value = self.parent.read(force), then the
\* field's bits; TypeError when the register reads as None.
FieldRead(f, force) ==
    LET port == NeedPortRead(force, cached_value, cache_flags)
        value == RegReadValue(force, cached_value, memory, cache_flags)
    IN  /\ cached_value' = value
        /\ last' = [NoCall EXCEPT !.op = "field_read", !.f = f,
                       !.force_read = force, !.ret = FieldOf(value, f),
                       !.err = IF value = None THEN "TypeError" ELSE "",
                       !.port_reads = Count(port),
                       !.port_ret = IF port THEN memory ELSE None,
                       !.pre_memory = memory, !.pre_cached = cached_value]
        /\ pending' = None
        /\ UNCHANGED <<memory, cache_flags, clocks, clk_last, sim, ocd>>

\* RegiceField.write(value, force_read, force_write):
\* parent.read(force_read), clear the span, OR in the shifted value,
\* parent.write(..., force_write).  When the register reads as None,
\* `None & ~mask` raises TypeError after the read and nothing is written.
FieldWrite(f, v, force_read, force_write) ==
    LET rport == NeedPortRead(force_read, cached_value, cache_flags)
        old == RegReadValue(force_read, cached_value, memory, cache_flags)
        raises == old = None
        new == IF raises THEN None ELSE FieldWriteValue(old, f, v)
        wport == NeedPortWrite(force_write, cache_flags)
    IN  /\ cached_value' = IF raises THEN old
                           ELSE WriteCache(new, force_write, old, cache_flags)
        /\ memory' = IF raises THEN memory
                     ELSE WriteMemory(new, force_write, memory, cache_flags)
        /\ last' = [NoCall EXCEPT !.op = "field_write", !.f = f, !.v = v,
                       !.force_read = force_read, !.force_write = force_write,
                       !.err = IF raises THEN "TypeError" ELSE "",
                       !.port_reads = Count(rport),
                       !.port_writes = IF raises THEN 0 ELSE Count(wport),
                       !.port_ret = IF rport THEN memory ELSE None,
                       !.pre_memory = memory, !.pre_cached = cached_value]
        /\ pending' = IF ~raises /\ IsDeferred(force_write) /\ ~force_read
                      THEN PendingAfterWrite(TRUE, f, v)
                      ELSE None
        /\ UNCHANGED <<cache_flags, clocks, clk_last, sim, ocd>>

\* RegiceRegister.flush(): client.write(size, address, self.cached_value),
\* whatever is cached.  With nothing cached the Port is handed None, and the
\* test client stores it: the register then reads as None.
Flush ==
    /\ memory' = cached_value
    /\ last' = [NoCall EXCEPT !.op = "flush", !.v = cached_value,
                   !.port_writes = 1, !.ret = pending,
                   !.pre_memory = memory, !.pre_cached = cached_value]
    /\ pending' = None
    /\ UNCHANGED <<cached_value, cache_flags, clocks, clk_last, sim, ocd>>

\* RegicePeripheral.cache_prefetch(): one client.read_list() call, and every
\* register caches the value returned for its address, whatever cache_flags.
CachePrefetch ==
    /\ cached_value' = memory
    /\ last' = [NoCall EXCEPT !.op = "cache_prefetch", !.ret = memory,
                   !.port_reads = 1, !.port_ret = memory,
                   !.pre_memory = memory, !.pre_cached = cached_value]
    /\ pending' = None
    /\ UNCHANGED <<memory, cache_flags, clocks, clk_last, sim, ocd>>

\* RegicePeripheral.cache_configure(flags)
CacheConfigure(flags) ==
    /\ flags # cache_flags
    /\ cache_flags' = flags
    /\ last' = [NoCall EXCEPT !.op = "cache_configure", !.v = flags,
                   !.pre_memory = memory, !.pre_cached = cached_value]
    /\ pending' = None
    /\ UNCHANGED <<memory, cached_value, clocks, clk_last, sim, ocd>>

---------------------------------------------------------------------------
(* The accessor state machine *)

Values == 0 .. MaxValue

\* RegiceObject.__init__: nothing cached, caching disabled.  The register
\* holds A2 set or clear over any RegBits-wide value (0x00100003, which the
\* test client preloads, is one of them).
Init ==
    /\ memory \in {Shl(a2, FieldDefs.A2.o) + low :
                      a2 \in 0 .. 1, low \in 0 .. (2 ^ RegBits - 1)}
    /\ cached_value = None
    /\ cache_flags = DISABLED
    /\ last = NoCall
    /\ pending = None
    /\ clocks = <<>>
    /\ clk_last = NoQuery
    /\ sim = NoSim
    /\ ocd = NoOcd

Next ==
    \/ \E force \in BOOLEAN : RegisterRead(force)
    \/ \E v \in Values, force \in BOOLEAN : RegisterWrite(v, force)
    \/ \E f \in FieldNames \ {"A1"}, force \in BOOLEAN : FieldRead(f, force)
    \/ \E f \in FieldNames \ {"A1"}, v \in Values, fr \in BOOLEAN,
             fw \in BOOLEAN :
          FieldWrite(f, v, fr, fw)
    \/ Flush
    \/ CachePrefetch
    \/ \E flags \in CacheFlagValues : CacheConfigure(flags)

Spec == Init /\ [][Next]_vars

---------------------------------------------------------------------------
(* Clock nodes (libregice/clock.py) *)

\* Divider.ONE_BASED / POWER_OF_TWO / ZERO_TO_GATE
ONE_BASED == 0
POWER_OF_TWO == 1
ZERO_TO_GATE == 2

\* An external function handed to a node (get_div, get_mux, get_freq), by the
\* value it returns; NoFn is the attribute left at None.
NoFn == [set |-> FALSE, ret |-> None]
Fn(r) == [set |-> TRUE, ret |-> r]

\* Clock.__init__ and the subclasses' __init__: every attribute at its default.
\* A name or a field left at None is the empty string: the code tests both by
\* truth value (`if not name`, `if self.parent`, `if self.en_field`).
DefaultNode ==
    [kind |-> "Clock", name |-> "", device |-> FALSE,
     parent |-> "", en_field |-> "", en_val |-> 1,
     rdy_field |-> "", rdy_val |-> 1, freq |-> None,
     div |-> None, div_field |-> "", div_table |-> <<>>,
     div_type |-> ONE_BASED, get_div |-> NoFn,
     mux_field |-> "", get_mux |-> NoFn, parents |-> <<>>,
     get_freq |-> NoFn]

\* Outcome of a call: the exception raised ("" when it returns), the value
\* returned, the number of field reads it made, and the arguments of the
\* exception (kept for MissingAttribute and MissingAttributes only).
Ok(v, n) == [err |-> "", val |-> v, reads |-> n, args |-> <<>>]
Raise(e, n) == [err |-> e, val |-> None, reads |-> n, args |-> <<>>]

\* r with n more field reads
AddReads(r, n) == [r EXCEPT !.reads = r.reads + n]

\* int(field) / field == value: one read of the field through its accessor,
\* which under the default (transparent) policy returns the device's bits.
FieldValue(f) == FieldOf(RegReadValue(FALSE, cached_value, memory, cache_flags), f)

\* ClockTree.add, called by Clock.__init__ for a clock built with a name and a
\* device: tree.clocks holds exactly these.  `clocks` holds every clock object
\* under the name it is known by; the others were never added to the tree.
Registry == {n \in DOMAIN clocks : clocks[n].name # "" /\ clocks[n].device}

\* Mutant: a missing name is looked up like any other.
TreeGetNoNone(name) ==
    IF name \notin Registry THEN Raise("UnknownClock", 0) ELSE Ok(name, 0)

\* ClockTree.get(name)
TreeGet(name) ==
    IF name = "" THEN Ok("", 0)
    ELSE IF name \notin Registry THEN Raise("UnknownClock", 0)
    ELSE Ok(name, 0)

\* Mutant: Mux._check does not look its parents up in the tree.
KindCheckSlotsUnchecked(c) ==
    CASE c.kind = "Fixed" ->
            IF c.freq = None THEN "MissingAttribute" ELSE ""
      [] c.kind = "Gate" ->
            IF c.en_field = "" THEN "MissingAttribute" ELSE ""
      [] c.kind = "PLL" ->
            IF ~c.get_freq.set THEN "MissingAttribute" ELSE ""
      [] c.kind = "Mux" ->
            IF DOMAIN c.parents = {} THEN "MissingAttribute"
            ELSE IF c.mux_field = "" /\ ~c.get_mux.set THEN "MissingAttribute"
            ELSE IF ~c.device THEN "MissingAttribute"
            ELSE ""
      [] c.kind = "Divider" ->
            IF c.get_div.set THEN ""
            ELSE IF c.div = None /\ c.div_field = "" THEN "MissingAttributes"
            ELSE ""
      [] OTHER -> ""

\* The kinds' _check(): "" when it passes, else the exception raised.
KindCheck(c) ==
    CASE c.kind = "Fixed" ->
            IF c.freq = None THEN "MissingAttribute" ELSE ""
      [] c.kind = "Gate" ->
            IF c.en_field = "" THEN "MissingAttribute" ELSE ""
      [] c.kind = "PLL" ->
            IF ~c.get_freq.set THEN "MissingAttribute" ELSE ""
      [] c.kind = "Mux" ->
            IF DOMAIN c.parents = {} THEN "MissingAttribute"
            ELSE IF c.mux_field = "" /\ ~c.get_mux.set THEN "MissingAttribute"
            ELSE IF ~c.device THEN "MissingAttribute"
            ELSE IF \E k \in DOMAIN c.parents :
                       c.parents[k] # "" /\ c.parents[k] \notin Registry
                 THEN "UnknownClock"
            ELSE ""
      [] c.kind = "Divider" ->
            IF c.get_div.set THEN ""
            ELSE IF c.div = None /\ c.div_field = "" THEN "MissingAttributes"
            ELSE ""
      [] OTHER -> ""

\* Clock.check(): the name, then the tree, then the kind's _check().
Check(n) ==
    IF clocks[n].name = "" THEN "MissingAttribute"
    ELSE IF ~clocks[n].device THEN "MissingAttribute"
    ELSE KindCheck(clocks[n])

\* str(x) of a name in an exception's message: None prints as "None".
Str(name) == IF name = "" THEN "None" ELSE name

\* The arguments (clock, attr) of the MissingAttribute(s) a kind's _check()
\* raises; attr is a list for a Mux without selector and for a Divider.
KindCheckArgs(c) ==
    CASE c.kind = "Fixed" -> <<Str(c.name), <<"freq">> >>
      [] c.kind = "Gate" -> <<Str(c.name), <<"en_field">> >>
      [] c.kind = "PLL" -> <<Str(c.name), <<"get_freq">> >>
      [] c.kind = "Mux" ->
            IF DOMAIN c.parents = {} THEN <<Str(c.name), <<"parents">> >>
            ELSE IF c.mux_field = "" /\ ~c.get_mux.set
                 THEN <<Str(c.name), <<"mux_field", "ext_get_mux">> >>
            ELSE <<Str(c.name), <<"tree">> >>
      [] OTHER -> <<Str(c.name), <<"div", "div_field">> >>

\* The arguments of the MissingAttribute(s) check() raises for node n, <<>>
\* when it raises none: MissingAttribute(None, 'name'),
\* MissingAttribute(self.tree, 'tree') with self.tree being None, or _check()'s.
CheckArgs(n) ==
    IF clocks[n].name = "" THEN <<"None", <<"name">> >>
    ELSE IF ~clocks[n].device THEN <<"None", <<"tree">> >>
    ELSE IF KindCheck(clocks[n]) \in {"MissingAttribute", "MissingAttributes"}
         THEN KindCheckArgs(clocks[n])
    ELSE <<>>

\* check() raising for node n, with the exception's arguments
RaiseCheck(n) == [Raise(Check(n), 0) EXCEPT !.args = CheckArgs(n)]

\* Mutant: the selector field is read even when a selector function is set.
MuxSelectorFieldFirst(c) ==
    IF c.mux_field # "" THEN Ok(FieldValue(c.mux_field), 1)
    ELSE Ok(c.get_mux.ret, 0)

\* Mux._get_parent: ext_get_mux(self) when set, else int(self.mux_field)
MuxSelector(c) ==
    IF c.get_mux.set THEN Ok(c.get_mux.ret, 0)
    ELSE Ok(FieldValue(c.mux_field), 1)

\* get_parent(): check(), then _get_parent().  The value is the parent's name,
\* "" for None.
GetParent(n) ==
    LET c == clocks[n]
    IN  IF Check(n) # "" THEN RaiseCheck(n)
        ELSE IF c.kind = "Mux" THEN
            LET sel == MuxSelector(c)
            IN  IF sel.val \notin DOMAIN c.parents THEN Raise("KeyError", sel.reads)
                ELSE AddReads(TreeGet(c.parents[sel.val]), sel.reads)
        ELSE TreeGet(c.parent)

\* Mutant: the lookup table is not consulted.
GetDivNoTable(c) ==
    IF c.get_div.set THEN Ok(c.get_div.ret, 0)
    ELSE IF c.div # None /\ c.div # 0 THEN Ok(c.div, 0)
    ELSE IF c.div_field # "" THEN
        IF c.div_type = ONE_BASED THEN Ok(FieldValue(c.div_field), 1)
        ELSE IF c.div_type = POWER_OF_TWO THEN Ok(Shl(1, FieldValue(c.div_field)), 1)
        ELSE Raise("InvalidDivider", 0)
    ELSE Raise("InvalidDivider", 0)

\* Divider._get_div
GetDiv(c) ==
    IF c.get_div.set THEN Ok(c.get_div.ret, 0)
    ELSE IF c.div # None /\ c.div # 0 THEN Ok(c.div, 0)
    ELSE IF c.div_field # "" THEN
        IF DOMAIN c.div_table # {} THEN
            LET div == FieldValue(c.div_field)
            IN  IF div \notin DOMAIN c.div_table THEN Raise("InvalidDivider", 1)
                ELSE Ok(c.div_table[div], 1)
        ELSE IF c.div_type = ONE_BASED THEN Ok(FieldValue(c.div_field), 1)
        ELSE IF c.div_type = POWER_OF_TWO THEN Ok(Shl(1, FieldValue(c.div_field)), 1)
        ELSE Raise("InvalidDivider", 0)
    ELSE Raise("InvalidDivider", 0)

\* Mutant: a divisor of 0 gates in every mode.
DivGatesAnyZero(c, div) == div = None \/ div = 0

\* div is None or (div == 0 and self.div_type == self.ZERO_TO_GATE)
DivGates(c, div) == div = None \/ (div = 0 /\ c.div_type = ZERO_TO_GATE)

Abs(x) == IF x < 0 THEN -x ELSE x

\* Mutant: the quotient is rounded up.
IntTrueDivCeil(a, b) == (a + b - 1) \div b

\* int(a / b), b # 0: the quotient truncated towards zero.  (a / b is a
\* double; for |a| < 2^53 the truncation of the rounded quotient is the
\* truncation of the exact one.)
IntTrueDiv(a, b) ==
    IF (a < 0) = (b < 0) THEN Abs(a) \div Abs(b) ELSE -(Abs(a) \div Abs(b))

\* Depth a chain of calls can reach before a parent link is followed twice.
\* A chain that follows a link twice never ends by itself: Python ends it
\* with RecursionError at the interpreter's recursion limit.  How many field
\* reads were made by then depends on that limit and on the frames in use at
\* the call, so only whether the chain read at all is kept (see Respond).
MaxDepth == Cardinality(DOMAIN clocks) + 1

\* int(parent_freq / div) once the parent's get_freq() has returned pf
DivideFreq(pf, div) ==
    IF pf.err # "" THEN pf
    ELSE IF div = 0 THEN Raise("ZeroDivisionError", pf.reads)
    ELSE Ok(IntTrueDiv(pf.val, div), pf.reads)

RECURSIVE GetFreq(_, _)
\* self.get_parent().get_freq(), p being what get_parent() gave; a Mux
\* returns 0 when there is no parent, the other kinds call None.get_freq().
ParentFreq(p, isMux, fuel) ==
    IF p.err # "" THEN p
    ELSE IF p.val = "" THEN
        IF isMux THEN Ok(0, p.reads) ELSE Raise("AttributeError", p.reads)
    ELSE AddReads(GetFreq(p.val, fuel - 1), p.reads)

\* Divider._get_freq, d being what _get_div() gave
DividerFreq(n, d, fuel) ==
    IF d.err # "" THEN d
    ELSE IF DivGates(clocks[n], d.val) THEN Ok(0, d.reads)
    ELSE AddReads(DivideFreq(ParentFreq(GetParent(n), FALSE, fuel), d.val), d.reads)

\* get_freq(): check(), then the kind's _get_freq()
GetFreq(n, fuel) ==
    LET c == clocks[n]
    IN  IF fuel = 0 THEN Raise("RecursionError", 0)
        ELSE IF Check(n) # "" THEN RaiseCheck(n)
        ELSE CASE c.kind = "Fixed" -> Ok(c.freq, 0)
          [] c.kind = "PLL" -> Ok(c.get_freq.ret, 0)
          [] c.kind = "Gate" -> ParentFreq(GetParent(n), FALSE, fuel)
          [] c.kind = "Mux" -> ParentFreq(GetParent(n), TRUE, fuel)
          [] c.kind = "Divider" -> DividerFreq(n, GetDiv(c), fuel)
          [] OTHER -> Raise("InvalidFrequency", 0)

\* Mutant: the enable field is preferred to the ready field.
GateTestEnableFirst(c) ==
    IF c.en_field # "" THEN Ok(FieldValue(c.en_field) = c.en_val, 1)
    ELSE IF c.rdy_field # "" THEN Ok(FieldValue(c.rdy_field) = c.rdy_val, 1)
    ELSE Ok(TRUE, 0)

\* Clock._enabled / Gate._enabled: the ready field if there is one, else the
\* enable field, else (no field) True.
GateTest(c) ==
    IF c.rdy_field # "" THEN Ok(FieldValue(c.rdy_field) = c.rdy_val, 1)
    ELSE IF c.en_field # "" THEN Ok(FieldValue(c.en_field) = c.en_val, 1)
    ELSE Ok(TRUE, 0)

\* The kind's _enabled() of node n
LocalEnabled(n) ==
    LET c == clocks[n]
    IN  CASE c.kind = "Mux" ->
                LET p == GetParent(n)
                IN  IF p.err # "" THEN p ELSE Ok(p.val # "", p.reads)
          [] c.kind = "Divider" ->
                LET d == GetDiv(c)
                IN  IF d.err # "" THEN d ELSE Ok(~DivGates(c, d.val), d.reads)
          [] OTHER -> GateTest(c)

\* Mutant: the parent is never asked.
HasParentNever(c) == FALSE

\* `if self.parent:` in Clock.enabled
HasParent(c) == c.parent # ""

RECURSIVE Enabled(_, _)
\* self.get_parent().enabled(), p being what get_parent() gave
ParentEnabled(p, fuel) ==
    IF p.err # "" THEN p
    ELSE IF p.val = "" THEN Raise("AttributeError", p.reads)
    ELSE AddReads(Enabled(p.val, fuel - 1), p.reads)

\* self._enabled() & parent_enabled, pe being the parent's answer
AndParent(pe, loc) ==
    IF pe.err # "" THEN pe
    ELSE IF loc.err # "" THEN AddReads(loc, pe.reads)
    ELSE Ok(loc.val /\ pe.val, pe.reads + loc.reads)

\* Clock.enabled(): check(), the parent's enabled() if self.parent is set,
\* then self._enabled() & parent_enabled
Enabled(n, fuel) ==
    IF fuel = 0 THEN Raise("RecursionError", 0)
    ELSE IF Check(n) # "" THEN RaiseCheck(n)
    ELSE AndParent(IF HasParent(clocks[n]) THEN ParentEnabled(GetParent(n), fuel)
                   ELSE Ok(TRUE, 0),
                   LocalEnabled(n))

\* ClockTree.get_freq(name)
TreeGetFreq(name) ==
    LET clock == TreeGet(name)
    IN  IF clock.err # "" THEN clock
        ELSE IF clock.val = "" THEN Ok(0, 0)
        ELSE GetFreq(name, MaxDepth)

\* ClockTree.is_gated(name): self.get(name).enabled() is False
IsGated(name) ==
    LET clock == TreeGet(name)
        en == Enabled(name, MaxDepth)
    IN  IF clock.err # "" THEN clock
        ELSE IF clock.val = "" THEN Ok(TRUE, 0)
        ELSE IF en.err # "" THEN en
        ELSE Ok(~en.val, en.reads)

---------------------------------------------------------------------------
(* Validation and structure of the registry (ClockTree) *)

\* Clock.build(): _check() with any exception turned into False.
Build(n) == Ok(KindCheck(clocks[n]) = "", 0)

\* Clock.check() called on a registered node: raises or returns None.
ClockCheck(n) == IF Check(n) # "" THEN RaiseCheck(n) ELSE Ok(None, 0)

\* Mutant: one clock passing is enough.
TreeBuildAny == Ok(\E n \in Registry : Build(n).val, 0)

\* Mutant: the truth test of a gate's en_field reads the field.
TreeBuildReadingFields ==
    Ok(\A n \in Registry : Build(n).val,
       Cardinality({n \in Registry : clocks[n].en_field # ""}))

\* ClockTree.build(): every clock's build() is called, True if none failed.
TreeBuild == Ok(\A n \in Registry : Build(n).val, 0)

\* Mutant: a Mux is a root when its selector currently resolves to no parent.
GetOrphansLive ==
    {n \in Registry :
        /\ clocks[n].parent = ""
        /\ (clocks[n].kind = "Mux" /\ DOMAIN clocks[n].parents # {}) =>
              (GetParent(n).err = "" /\ GetParent(n).val = "")}

\* ClockTree.get_orphans(): the clocks with neither a parent nor (Mux) a
\* non-empty parents map.
GetOrphans ==
    {n \in Registry :
        ~(clocks[n].parent # ""
            \/ (clocks[n].kind = "Mux" /\ DOMAIN clocks[n].parents # {}))}

\* Mutant: a Mux is a child of the parent it currently resolves to only.
GetChildrenLive(parent) ==
    {n \in Registry :
        \/ clocks[n].parent = parent
        \/ /\ clocks[n].kind = "Mux"
           /\ GetParent(n).err = "" /\ GetParent(n).val = parent}

\* ClockTree.get_children(parent): clock.parent == parent, or parent among
\* the values of a Mux's parents map.
GetChildren(parent) ==
    {n \in Registry :
        \/ clocks[n].parent = parent
        \/ /\ clocks[n].kind = "Mux"
           /\ \E k \in DOMAIN clocks[n].parents : clocks[n].parents[k] = parent}

\* The order the clocks were registered in, which is the order a dict of
\* clocks is walked in.
RegOrder ==
    <<"osc1", "osc2", "osc3", "mux1", "div1", "div2", "gate1", "gate2", "div3",
      "div4", "pll1">>

Ordered(S) == SelectSeq(RegOrder, LAMBDA n : n \in S)

\* Mutant: a Mux is attached under every declared candidate.
MuxPlaceAnyCandidate(c, parent) ==
    IF clocks[c].kind # "Mux" THEN Ok(TRUE, 0)
    ELSE IF GetParent(c).err # "" THEN GetParent(c)
    ELSE Ok(GetParent(c).val # "", GetParent(c).reads)

\* make_tree's test of a child: a Mux is kept only when get_parent() gives a
\* clock and that clock is the parent being filled.
MuxPlace(c, parent) ==
    IF clocks[c].kind # "Mux" THEN Ok(TRUE, 0)
    ELSE IF GetParent(c).err # "" THEN GetParent(c)
    ELSE Ok(GetParent(c).val # "" /\ GetParent(c).val = parent, GetParent(c).reads)

RECURSIVE MakeTree(_, _, _)
\* tree[clock_name] = sub, joined with the rest of the loop
TreeUnion(path, sub, rest, reads) ==
    IF rest.err # "" THEN AddReads(rest, reads + sub.reads)
    ELSE Ok({path} \cup sub.val \cup rest.val, reads + sub.reads + rest.reads)

TreeJoin(path, sub, parent, prefix, todo, reads) ==
    IF sub.err # "" THEN AddReads(sub, reads)
    ELSE TreeUnion(path, sub, MakeTree(parent, prefix, todo), reads)

\* One turn of make_tree's loop, place being the test of Head(todo)
TreeStep(parent, prefix, todo, place) ==
    IF place.err # "" THEN place
    ELSE IF ~place.val THEN AddReads(MakeTree(parent, prefix, Tail(todo)), place.reads)
    ELSE TreeJoin(Append(prefix, Head(todo)),
                  MakeTree(Head(todo), Append(prefix, Head(todo)),
                           Ordered(GetChildren(Head(todo)))),
                  parent, prefix, Tail(todo), place.reads)

\* ClockTree.make_tree(parent, clocks), clocks being todo in walking order:
\* the nested dict as the set of its key paths below prefix.  A path longer
\* than the registry repeats a clock: the recursion never returns and ends
\* at the interpreter's recursion limit.
MakeTree(parent, prefix, todo) ==
    IF Len(prefix) >= MaxDepth THEN Raise("RecursionError", 0)
    ELSE IF todo = <<>> THEN Ok({}, 0)
    ELSE TreeStep(parent, prefix, todo, MuxPlace(Head(todo), parent))

\* ClockTree.make_tree(): the tree under the orphans
MakeTreeTop == MakeTree("", <<>>, Ordered(GetOrphans))

---------------------------------------------------------------------------
(* The clock registries the model is run on *)

\* Largest frequency of a fixed clock and largest static divisor.
MaxFreq == 7
MaxDiv == 2

\* Clocks built with name=<their key> and device=<the device under test>.
Registered(cfg) ==
    [n \in DOMAIN cfg |-> [cfg[n] EXCEPT !.name = n, !.device = TRUE]]

\* FixedClock(name=..., freq=..., en_field=...), Gate(...), Divider(...),
\* Mux(...), PLL(...): the constructors' keyword arguments.
MkFixed(freq, en) ==
    [DefaultNode EXCEPT !.kind = "Fixed", !.freq = freq, !.en_field = en]
MkGate(parent, en) ==
    [DefaultNode EXCEPT !.kind = "Gate", !.parent = parent, !.en_field = en]
MkDivider(parent, div) ==
    [DefaultNode EXCEPT !.kind = "Divider", !.parent = parent, !.div = div]
MkMux(parents, field, fn) ==
    [DefaultNode EXCEPT !.kind = "Mux", !.parents = parents, !.mux_field = field,
                        !.get_mux = fn]
MkPLL(parent, freq, rdy, rdy_val) ==
    [DefaultNode EXCEPT !.kind = "PLL", !.parent = parent, !.get_freq = Fn(freq),
                        !.rdy_field = rdy, !.rdy_val = rdy_val]

\* parents={0: 'test0', 1: 'test1', 3: None} of TestMux.test_get_freq
TestMuxParents == (0 :> "osc1" @@ 1 :> "osc2" @@ 3 :> "")

\* A map with a slot that may lead back to the mux (gate1's parent can be mux1).
LoopMuxParents == (0 :> "osc1" @@ 1 :> "gate1")

ClockNames == {"osc1", "osc2", "mux1", "div1", "gate1", "pll1"}

\* The registries: two oscillators (osc1 gated by A1), a mux selected by A3
\* (the test's slots, read from the field or given by get_mux, or slots that
\* lead back to the mux), a divider and a gate (enabled by A2) whose parents
\* vary, and a PLL behind the gate that is ready when A1 reads 0.
Configs ==
    {Registered([n \in ClockNames |->
        CASE n = "osc1" -> MkFixed(F, "A1")
          [] n = "osc2" -> MkFixed(F + 1, "")
          [] n = "mux1" -> mux
          [] n = "div1" -> MkDivider(dp, D)
          [] n = "gate1" -> MkGate(gp, "A2")
          [] n = "pll1" -> MkPLL("gate1", F + F, "A1", 0)]) :
        F \in {MaxFreq - 1, MaxFreq}, D \in 1 .. MaxDiv,
        mux \in {MkMux(TestMuxParents, "A3", NoFn),
                 MkMux(TestMuxParents, "A3", Fn(1)),
                 MkMux(LoopMuxParents, "A3", NoFn)},
        dp \in {"", "osc1", "mux1"}, gp \in {"", "div1", "mux1"}}

\* Names the registry is asked about: its clocks, no name, an unknown name.
QueryNames == ClockNames \cup {"", "nope"}

\* Largest value the clock tests write to a field (A3.write(3)).
MaxField == 3

\* Values a field is written with: those that fit it, up to MaxField.
FieldValues(f) == 0 .. (IF LowMask(f) < MaxField THEN LowMask(f) ELSE MaxField)

\* Values of the device register: every combination of these field values.
DeviceValues ==
    {Shl(a1, FieldDefs.A1.o) + Shl(a2, FieldDefs.A2.o) + Shl(a3, FieldDefs.A3.o) :
        a1 \in FieldValues("A1"), a2 \in FieldValues("A2"),
        a3 \in FieldValues("A3")}

---------------------------------------------------------------------------
(* Clock queries *)

\* The value every Mux's selector has now (None for a Mux without selector).
MuxSelectors ==
    [n \in {m \in DOMAIN clocks : clocks[m].kind = "Mux"} |->
        IF clocks[n].get_mux.set THEN clocks[n].get_mux.ret
        ELSE IF clocks[n].mux_field # "" THEN FieldOf(memory, clocks[n].mux_field)
        ELSE None]

\* The call's outcome r is recorded and the accessors' cache follows the reads.
\* reads is the number of field reads the call made, and None for a chain
\* that read until the interpreter ended it with RecursionError.
Respond(op, name, r) ==
    /\ clk_last' =
          [NoQuery EXCEPT
              !.op = op, !.name = name, !.err = r.err,
              !.reads = IF r.err = "RecursionError" /\ r.reads > 0 THEN None
                        ELSE r.reads,
              !.freq = IF op \in {"get_freq", "clock_get_freq", "get_div"}
                          /\ r.err = ""
                       THEN r.val ELSE 0,
              !.en = IF op \in {"enabled", "is_gated"} /\ r.err = ""
                     THEN r.val ELSE FALSE,
              !.parent = IF op \in {"get_parent", "get"} /\ r.err = ""
                         THEN r.val ELSE "",
              !.ok = IF op \in {"build", "tree_build"} /\ r.err = ""
                     THEN r.val ELSE FALSE,
              !.names = IF op \in {"get_orphans", "get_children"} /\ r.err = ""
                        THEN r.val ELSE {},
              !.tree = IF op = "make_tree" /\ r.err = "" THEN r.val
                       ELSE clk_last.tree,
              !.tree_made = (op = "make_tree" /\ r.err = "") \/ clk_last.tree_made,
              !.tree_sels = IF op = "make_tree" /\ r.err = "" THEN MuxSelectors
                            ELSE clk_last.tree_sels,
              !.tree_clocks = IF op = "make_tree" /\ r.err = "" THEN clocks
                              ELSE clk_last.tree_clocks,
              !.args = r.args]
    /\ cached_value' = IF r.reads > 0
                       THEN RegReadValue(FALSE, cached_value, memory, cache_flags)
                       ELSE cached_value
    /\ UNCHANGED <<memory, cache_flags, last, pending, clocks, sim, ocd>>

\* ClockTree.get_freq(name)
QueryGetFreq(name) == Respond("get_freq", name, TreeGetFreq(name))

\* ClockTree.is_gated(name)
QueryIsGated(name) == Respond("is_gated", name, IsGated(name))

\* clock.enabled() of a registered clock
QueryEnabled(name) ==
    /\ name \in DOMAIN clocks
    /\ Respond("enabled", name, Enabled(name, MaxDepth))

\* clock.get_freq() of a clock object
QueryClockGetFreq(name) ==
    /\ name \in DOMAIN clocks
    /\ Respond("clock_get_freq", name, GetFreq(name, MaxDepth))

\* clock.get_parent() of a registered clock
QueryGetParent(name) ==
    /\ name \in DOMAIN clocks
    /\ Respond("get_parent", name, GetParent(name))

\* ClockTree.get(name); the answer is the clock's name, "" for None
QueryGet(name) == Respond("get", name, TreeGet(name))

\* clock.check() of a registered clock
QueryCheck(name) ==
    /\ name \in DOMAIN clocks
    /\ Respond("check", name, ClockCheck(name))

\* clock.build() of a registered clock
QueryBuild(name) ==
    /\ name \in DOMAIN clocks
    /\ Respond("build", name, Build(name))

\* ClockTree.build()
QueryTreeBuild == Respond("tree_build", "", TreeBuild)

\* ClockTree.get_orphans()
QueryGetOrphans == Respond("get_orphans", "", Ok(GetOrphans, 0))

\* ClockTree.get_children(name)
QueryGetChildren(name) == Respond("get_children", name, Ok(GetChildren(name), 0))

\* ClockTree.make_tree()
QueryMakeTree == Respond("make_tree", "", MakeTreeTop)

\* divider._get_div() of a registered Divider
QueryGetDiv(name) ==
    /\ name \in DOMAIN clocks
    /\ clocks[name].kind = "Divider"
    /\ Respond("get_div", name, GetDiv(clocks[name]))

\* field.write(v) through the accessor, as the tests and the register
\* simulation change gate and selector bits (v fits the field).
ClockFieldWrite(f, v) ==
    LET old == RegReadValue(FALSE, cached_value, memory, cache_flags)
        new == FieldWriteValue(old, f, v)
    IN  /\ cached_value' = WriteCache(new, FALSE, old, cache_flags)
        /\ memory' = WriteMemory(new, FALSE, memory, cache_flags)
        /\ clk_last' = [NoQuery EXCEPT !.op = "field_write", !.name = f,
                                       !.tree = clk_last.tree,
                                       !.tree_made = clk_last.tree_made,
                                       !.tree_sels = clk_last.tree_sels,
                                       !.tree_clocks = clk_last.tree_clocks]
        /\ UNCHANGED <<cache_flags, last, pending, clocks, sim, ocd>>

\* A device holding any value, accessors as constructed (nothing cached,
\* caching disabled), one of the registries.
InitClock ==
    /\ memory \in DeviceValues
    /\ cached_value = None
    /\ cache_flags = DISABLED
    /\ last = NoCall
    /\ pending = None
    /\ clocks \in Configs
    /\ clk_last = NoQuery
    /\ sim = NoSim
    /\ ocd = NoOcd

NextClock ==
    \/ \E name \in QueryNames : QueryGetFreq(name)
    \/ \E name \in QueryNames : QueryIsGated(name)
    \/ \E name \in ClockNames : QueryEnabled(name)
    \/ \E name \in ClockNames : QueryGetParent(name)
    \/ \E f \in FieldNames : \E v \in FieldValues(f) : ClockFieldWrite(f, v)

SpecClock == InitClock /\ [][NextClock]_vars

---------------------------------------------------------------------------
(* The registry of TestClockTree and its variants *)

\* parents={0: 'osc1', 1: 'osc2', 2: 'osc3', 3: 'osc3'} of TestClockTree
TestTreeParents == (0 :> "osc1" @@ 1 :> "osc2" @@ 2 :> "osc3" @@ 3 :> "osc3")

\* A map naming a clock that is not registered
UnknownMuxParents == (0 :> "osc1" @@ 1 :> "nope")

\* The registry the tests build, with each choice of mux1: the test's, one
\* with a "no parent" slot and a selector value without slot, one without
\* slots, one naming an unknown clock.
TreeConfigs ==
    {Registered([n \in {"osc1", "osc2", "osc3", "mux1", "div1", "div2", "gate1",
                        "gate2", "div3"} |->
        CASE n = "osc1" -> MkFixed(MaxFreq, "")
          [] n = "osc2" -> MkFixed(MaxFreq + 1, "")
          [] n = "osc3" -> MkFixed(MaxFreq + 2, "")
          [] n = "mux1" -> mux
          [] n = "div1" -> MkDivider("osc1", MaxDiv)
          [] n = "div2" -> MkDivider("mux1", MaxDiv + 1)
          [] n = "gate1" -> MkGate("div1", "A1")
          [] n = "gate2" -> MkGate("div2", "A2")
          [] n = "div3" -> MkDivider("gate2", MaxDiv)]) :
        mux \in {MkMux(TestTreeParents, "A3", NoFn),
                 MkMux(TestMuxParents, "A3", NoFn),
                 MkMux(<<>>, "A3", NoFn),
                 MkMux(UnknownMuxParents, "A3", NoFn)}}

\* Divider(name=name, device=dev) as in TestClockTree.test_build: Clock.__init__
\* ends with self.tree.add(self.name, self), which stores the new clock under
\* its name, replacing a clock already known by it.
ClockAdd(name) ==
    /\ clocks' = Registered([n \in {name} |->
                                [DefaultNode EXCEPT !.kind = "Divider"]]) @@ clocks
    /\ clk_last' = [NoQuery EXCEPT !.op = "add", !.name = name,
                                   !.tree = clk_last.tree,
                                   !.tree_made = clk_last.tree_made,
                                   !.tree_sels = clk_last.tree_sels,
                                   !.tree_clocks = clk_last.tree_clocks]
    /\ UNCHANGED <<memory, cached_value, cache_flags, last, pending, sim, ocd>>

\* Names the registry is asked about: None, an unknown name, two clocks.
TreeQueryNames == {"", "nope", "mux1", "gate2"}

TreeNames == {"osc1", "osc2", "osc3", "mux1", "div1", "div2", "gate1", "gate2",
              "div3", "div4"}

InitTree ==
    /\ memory \in DeviceValues
    /\ cached_value = None
    /\ cache_flags = DISABLED
    /\ last = NoCall
    /\ pending = None
    /\ clocks \in TreeConfigs
    /\ clk_last = NoQuery
    /\ sim = NoSim
    /\ ocd = NoOcd

NextTree ==
    \/ \E name \in TreeQueryNames : QueryGet(name)
    \/ \E name \in TreeQueryNames : QueryGetFreq(name)
    \/ \E name \in TreeQueryNames : QueryIsGated(name)
    \/ \E name \in TreeQueryNames : QueryGetParent(name)
    \/ \E name \in TreeQueryNames : QueryEnabled(name)
    \/ \E name \in TreeNames : QueryCheck(name)
    \/ \E name \in TreeNames : QueryBuild(name)
    \/ QueryTreeBuild
    \/ QueryGetOrphans
    \/ \E name \in TreeNames \cup {"nope"} : QueryGetChildren(name)
    \/ QueryMakeTree
    \/ ClockAdd("div4")
    \/ \E f \in FieldNames : \E v \in FieldValues(f) : ClockFieldWrite(f, v)

SpecTree == InitTree /\ [][NextTree]_vars

---------------------------------------------------------------------------
(* Registries of dividers and gates in every configuration *)

\* div_type=9999 of TestDivider.test_get_div: a mode the code does not know
UnknownType == 9999

\* Divider(name='div1', device=dev, parent='osc1', div=..., div_field=...,
\* table=..., div_type=..., get_div=...)
MkDividerBy(div, field, table, type, fn) ==
    [DefaultNode EXCEPT !.kind = "Divider", !.parent = "osc1", !.div = div,
                        !.div_field = field, !.div_table = table,
                        !.div_type = type, !.get_div = fn]

\* Gate(name=..., device=dev, parent=..., en_field=A2, en_val=..., rdy_field=...,
\* rdy_val=...)
MkGateBy(parent, en_val, rdy, rdy_val) ==
    [DefaultNode EXCEPT !.kind = "Gate", !.parent = parent, !.en_field = "A2",
                        !.en_val = en_val, !.rdy_field = rdy, !.rdy_val = rdy_val]

\* The divider by an external function (returning None, 0 or a divisor), by a
\* static divisor (0 or not, with or without a field behind it), by a field
\* (without table, or with one that has a zero entry and no entry for field
\* value 2, in every mode), and without any divisor.
DividerChoices ==
    {MkDividerBy(None, "", <<>>, t, Fn(r)) :
        t \in {ONE_BASED, ZERO_TO_GATE}, r \in {None, 0, MaxDiv}}
    \cup {MkDividerBy(d, f, <<>>, t, NoFn) :
        d \in {0, MaxDiv}, f \in {"", "A3"}, t \in {ONE_BASED, ZERO_TO_GATE}}
    \cup {MkDividerBy(None, "A3", tb, t, NoFn) :
        tb \in {<<>>, (0 :> 0 @@ 1 :> MaxDiv @@ 3 :> MaxDiv + 1)},
        t \in {ONE_BASED, POWER_OF_TWO, ZERO_TO_GATE, UnknownType}}
    \cup {MkDividerBy(None, "", <<>>, ONE_BASED, NoFn)}

DividerNames == {"osc1", "div1", "gate1", "gate"}

\* osc1 (enabled by A1) -> div1 -> gate1, and the gate without parent of
\* TestGate.  g is en_val, rdy_field, rdy_val of the gates: the defaults, an
\* enable value of 0, a ready field expected at 1 and at 0.
DividerConfigs ==
    {Registered([n \in DividerNames |->
        CASE n = "osc1" -> MkFixed(MaxFreq, "A1")
          [] n = "div1" -> d
          [] n = "gate1" -> MkGateBy("div1", g[1], g[2], g[3])
          [] n = "gate" -> MkGateBy("", g[1], g[2], g[3])]) :
        d \in DividerChoices,
        g \in {<<1, "", 1>>, <<0, "", 1>>, <<1, "A1", 1>>, <<1, "A1", 0>>}}

InitDivider ==
    /\ memory \in DeviceValues
    /\ cached_value = None
    /\ cache_flags = DISABLED
    /\ last = NoCall
    /\ pending = None
    /\ clocks \in DividerConfigs
    /\ clk_last = NoQuery
    /\ sim = NoSim
    /\ ocd = NoOcd

NextDivider ==
    \/ \E name \in DividerNames : QueryGetFreq(name)
    \/ \E name \in DividerNames : QueryEnabled(name)
    \/ \E name \in DividerNames : QueryGetDiv(name)
    \/ \E f \in FieldNames : \E v \in FieldValues(f) : ClockFieldWrite(f, v)

SpecDivider == InitDivider /\ [][NextDivider]_vars

---------------------------------------------------------------------------
(* Clock objects of every kind, configured or not, registered or not *)

NodeNames == {"osc1", "osc2", "x"}

\* Two registered oscillators and a clock object x built with or without
\* name='x' and with or without device=dev.  c is the keyword arguments of
\* the kinds' constructors, complete and incomplete: Clock(),
\* FixedClock(freq=...), Gate(en_field=...), PLL(get_freq=...),
\* Mux(parents=..., mux_field=...), Divider(div=..., div_field=..., get_div=...)
\* as in the test_check and test_build cases of src/test.py.
NodeConfigs ==
    {Registered([n \in {"osc1", "osc2"} |-> MkFixed(MaxFreq, "A1")])
        @@ [n \in {"x"} |-> [c EXCEPT !.name = nm, !.device = dv]] :
        c \in {DefaultNode, MkFixed(None, ""), MkFixed(MaxFreq, ""),
               MkGate("osc1", ""), MkGate("osc1", "A2"),
               [DefaultNode EXCEPT !.kind = "PLL"], MkPLL("osc1", MaxFreq, "", 1),
               MkMux(<<>>, "A3", NoFn), MkMux(TestMuxParents, "", NoFn),
               MkMux(TestMuxParents, "A3", NoFn),
               MkMux(UnknownMuxParents, "A3", NoFn),
               MkMux(TestMuxParents, "", Fn(0)),
               [DefaultNode EXCEPT !.kind = "Divider", !.parent = "osc1"],
               MkDivider("osc1", MaxDiv),
               MkDividerBy(None, "A3", <<>>, ONE_BASED, NoFn),
               MkDividerBy(None, "", <<>>, ONE_BASED, Fn(MaxDiv)),
               MkGate("nope", "A2"), MkDivider("nope", MaxDiv)},
        nm \in {"", "x"}, dv \in BOOLEAN}

InitNode ==
    /\ memory \in DeviceValues
    /\ cached_value = None
    /\ cache_flags = DISABLED
    /\ last = NoCall
    /\ pending = None
    /\ clocks \in NodeConfigs
    /\ clk_last = NoQuery
    /\ sim = NoSim
    /\ ocd = NoOcd

NextNode ==
    \/ \E name \in NodeNames : QueryCheck(name)
    \/ \E name \in NodeNames : QueryBuild(name)
    \/ \E name \in NodeNames : QueryClockGetFreq(name)
    \/ \E name \in NodeNames : QueryGetParent(name)
    \/ \E name \in NodeNames : QueryEnabled(name)
    \/ \E name \in NodeNames : QueryGetFreq(name)
    \/ \E name \in NodeNames : QueryIsGated(name)
    \/ QueryTreeBuild
    \/ \E f \in FieldNames : \E v \in FieldValues(f) : ClockFieldWrite(f, v)

SpecNode == InitNode /\ [][NextNode]_vars

---------------------------------------------------------------------------
(* Registries whose parent links form a cycle *)

CycleNames == {"osc1", "mux1", "gate1", "gate2"}

\* osc1 <- mux1 (slot 0: osc1, slot 1: gate1) and gate1 <- gate2; gate1's
\* parent is osc1 (no cycle), mux1 (a cycle whenever mux1 selects slot 1) or
\* gate2 (gate1's parent is gate2 and gate2's parent is gate1).
\* Slot 1 of mux1 may also name mux1 itself.
CycleConfigs ==
    {Registered([n \in CycleNames |->
        CASE n = "osc1" -> MkFixed(MaxFreq, "A1")
          [] n = "mux1" -> MkMux(mp, "A3", NoFn)
          [] n = "gate1" -> MkGate(gp, "A2")
          [] n = "gate2" -> MkGate("gate1", "A1")]) :
        gp \in {"osc1", "mux1", "gate2"},
        mp \in {LoopMuxParents, (0 :> "osc1" @@ 1 :> "mux1")}}

InitCycle ==
    /\ memory \in DeviceValues
    /\ cached_value = None
    /\ cache_flags = DISABLED
    /\ last = NoCall
    /\ pending = None
    /\ clocks \in CycleConfigs
    /\ clk_last = NoQuery
    /\ sim = NoSim
    /\ ocd = NoOcd

NextCycle ==
    \/ \E name \in CycleNames : QueryGetFreq(name)
    \/ \E name \in CycleNames : QueryEnabled(name)
    \/ \E name \in CycleNames : QueryIsGated(name)
    \/ QueryTreeBuild
    \/ QueryMakeTree
    \/ \E f \in FieldNames : \E v \in FieldValues(f) : ClockFieldWrite(f, v)

SpecCycle == InitCycle /\ [][NextCycle]_vars

---------------------------------------------------------------------------
(* Operators of the accessors (RegiceObject) *)

\* Largest right operand of a comparison or an in-place operator.
MaxOperand == 3

\* a ^ b (exclusive or) for non-negative a, b
BitXor(a, b) == BitOr(a, b) - BitAnd(a, b)

RECURSIVE Pow(_, _)
\* a ** b for b >= 0 (0 ** 0 is 1)
Pow(a, b) == IF b = 0 THEN 1 ELSE a * Pow(a, b - 1)

\* __lt__, __le__, __eq__, __ne__, __ge__, __gt__ with n = int(self) and
\* k = int(other): what each method returns.
Compare(op, n, k) ==
    CASE op = "<" -> n < k
      [] op = "<=" -> n <= k
      [] op = "==" -> n = k
      [] op = "!=" -> n # k
      [] op = ">=" -> n > k
      [] op = ">" -> n >= k

\* __add__ .. __or__ with n = int(self) and k = int(other), k # 0 for the
\* divisions: what x OP k evaluates to ("/" gives a float and is left out).
Binary(op, n, k) ==
    CASE op = "+" -> n + k
      [] op = "-" -> n - k
      [] op = "*" -> n * k
      [] op = "//" -> n \div k
      [] op = "%" -> n % k
      [] op = "&" -> BitAnd(n, k)
      [] op = "|" -> BitOr(n, k)
      [] op = "^" -> BitXor(n, k)
      [] op = "<<" -> Shl(n, k)
      [] op = ">>" -> Shr(n, k)
      [] op = "**" -> Pow(n, k)

\* __iadd__ .. __ipow__ with n = int(self) and k = int(other), k # 0 for
\* the divisions: the value handed to self.write().
InPlaceValue(op, n, k) ==
    CASE op = "+" -> n + k
      [] op = "-" -> n - k
      [] op = "*" -> n * k
      [] op = "/" -> IntTrueDiv(n, k)
      [] op = "//" -> n \div k
      [] op = "%" -> n % k
      [] op = "&" -> BitAnd(n, k)
      [] op = "|" -> BitOr(n, k)
      [] op = "^" -> BitXor(n, k)
      [] op = "<<" -> Shr(n, k)
      [] op = ">>" -> Shl(n, k)
      [] op = "**" -> Pow(n, k)

\* x OP k for a comparison, x being the register (f = "") or its field f:
\* int(self) is self.read(), then the integers are compared.  A register
\* that reads as None makes int(self) raise TypeError.
CompareOp(f, op, k) ==
    LET port == NeedPortRead(FALSE, cached_value, cache_flags)
        value == RegReadValue(FALSE, cached_value, memory, cache_flags)
        n == IF f = "" THEN value ELSE FieldOf(value, f)
    IN  /\ cached_value' = value
        /\ last' = [NoCall EXCEPT !.op = "compare", !.f = f, !.opr = op,
                       !.v = k, !.ret = n,
                       !.res = IF n = None THEN FALSE ELSE Compare(op, n, k),
                       !.err = IF n = None THEN "TypeError" ELSE "",
                       !.port_reads = Count(port),
                       !.port_ret = IF port THEN memory ELSE None,
                       !.pre_memory = memory, !.pre_cached = cached_value]
        /\ pending' = None
        /\ UNCHANGED <<memory, cache_flags, clocks, clk_last, sim, ocd>>

\* reg OP= k on a register: self.write(int(self) OP k); a register that
\* reads as None (TypeError) or a division by 0 raises after the read.  The
\* register holds unsigned values of RegBits bits: steps whose result is
\* outside are left out.
InPlaceOp(op, k) ==
    LET port == NeedPortRead(FALSE, cached_value, cache_flags)
        n == RegReadValue(FALSE, cached_value, memory, cache_flags)
        raises == n = None \/ (op \in {"/", "//", "%"} /\ k = 0)
        value == IF raises THEN None ELSE InPlaceValue(op, n, k)
        wport == NeedPortWrite(FALSE, cache_flags)
    IN  /\ raises \/ value \in 0 .. (2 ^ RegBits - 1)
        /\ cached_value' = IF raises THEN n ELSE WriteCache(value, FALSE, n, cache_flags)
        /\ memory' = IF raises THEN memory
                     ELSE WriteMemory(value, FALSE, memory, cache_flags)
        /\ last' = [NoCall EXCEPT !.op = "inplace", !.opr = op, !.v = k,
                       !.ret = n, !.wrote = value,
                       !.err = IF n = None THEN "TypeError"
                              ELSE IF raises THEN "ZeroDivisionError" ELSE "",
                       !.port_reads = Count(port),
                       !.port_writes = IF raises THEN 0 ELSE Count(wport),
                       !.port_ret = IF port THEN memory ELSE None,
                       !.pre_memory = memory, !.pre_cached = cached_value]
        /\ pending' = IF ~raises /\ IsDeferred(FALSE) /\ n = memory THEN value
                      ELSE None
        /\ UNCHANGED <<cache_flags, clocks, clk_last, sim, ocd>>

\* As Init, the register holding a RegBits-wide value: the operands and the
\* results of the arithmetic stay small.
InitOps ==
    /\ memory \in 0 .. (2 ^ RegBits - 1)
    /\ cached_value = None
    /\ cache_flags = DISABLED
    /\ last = NoCall
    /\ pending = None
    /\ clocks = <<>>
    /\ clk_last = NoQuery
    /\ sim = NoSim
    /\ ocd = NoOcd

NextOps ==
    \/ \E f \in FieldNames \cup {""} :
          \E op \in {"<", "<=", "==", "!=", ">=", ">"} : \E k \in 0 .. MaxOperand :
              CompareOp(f, op, k)
    \/ \E op \in {"+", "-", "*", "/", "//", "%", "&", "|", "^", "<<", ">>", "**"} :
          \E k \in 0 .. MaxOperand : InPlaceOp(op, k)
    \/ \E force \in BOOLEAN : RegisterRead(force)
    \/ Flush
    \/ \E flags \in CacheFlagValues : CacheConfigure(flags)

SpecOps == InitOps /\ [][NextOps]_vars

---------------------------------------------------------------------------
(* RegisterSimulation (libregice/regiceclienttest.py) *)

\* Latest time the clock reaches.
MaxTime == 4

\* An option of a section, an `option = value` line of the simulation file:
\* k is "write" or "read" for a line that names a field f (a value v, or
\* "read"), "sleep" with a delay v, "goto" with a target section t.
Option(k, f, v, t) == [k |-> k, f |-> f, v |-> v, t |-> t]

\* Simulation files after the pattern the test walks through: section 8
\* sets a field and sleeps, 9 clears it, 10 reads and sets another, 14 sets
\* the first, sleeps and (in most files) goes to another section; the goto
\* is the first or the last option of 14, and 8 may skip 9 with a goto of
\* its own (skip), which is what the file of a second read() adds.
SimFile(skip, last14) ==
    <<[name |-> "8",
       options |-> <<Option("write", "A1", 1, ""), Option("sleep", "", 1, "")>>
                   \o (IF skip THEN <<Option("goto", "", 0, "10")>> ELSE <<>>)],
      [name |-> "9", options |-> <<Option("write", "A1", 0, "")>>],
      [name |-> "10",
       options |-> <<Option("read", "A2", 0, ""), Option("write", "A2", 1, "")>>],
      [name |-> "14", options |-> last14]>>

SimFiles ==
    {SimFile(skip, opts) :
        skip \in {FALSE},
        opts \in {<<Option("goto", "", 0, "9"), Option("write", "A1", 1, ""), Option("sleep", "", 1, "")>>,
                  <<Option("write", "A1", 1, ""), Option("sleep", "", 1, ""), Option("goto", "", 0, "9")>>,
                  <<Option("write", "A1", 1, ""), Option("goto", "", 0, "nope")>>,
                  <<Option("write", "A1", 1, ""), Option("sleep", "", 2, "")>>}}

\* self.config.sections(): the section names in file order
SectionNames(file) == [i \in 1 .. Len(file) |-> file[i].name]

\* Mutant: only the call that arms the timer finds it running.
SleepOnlyWhenArming(time, now, timeout) ==
    IF time = 0 /\ timeout > 0 THEN [ret |-> TRUE, time |-> now + timeout]
    ELSE IF time <= now THEN [ret |-> FALSE, time |-> 0]
    ELSE [ret |-> FALSE, time |-> time]

\* RegisterSimulation.sleep(timeout): what it returns and what it leaves in
\* self.time, now being time()
Sleep(time, now, timeout) ==
    IF time = 0 /\ timeout > 0 THEN [ret |-> TRUE, time |-> now + timeout]
    ELSE IF time = 0 /\ timeout = 0 THEN [ret |-> FALSE, time |-> 0]
    ELSE IF time <= now THEN [ret |-> FALSE, time |-> 0]
    ELSE [ret |-> TRUE, time |-> time]

\* Position of the first section called name, 0 when there is none
IndexOf(names, name) ==
    IF \E i \in 1 .. Len(names) : names[i] = name
    THEN CHOOSE i \in 1 .. Len(names) :
            names[i] = name /\ \A j \in 1 .. (i - 1) : names[j] # name
    ELSE 0

\* RegisterSimulation.get_next_section: the section to run and the state of
\* the iterator (iter sections consumed); next() on an exhausted iterator
\* raises StopIteration.
GetNextSection(names, iter, section, next_section) ==
    IF next_section # "" THEN
        IF IndexOf(names, next_section) = 0
        THEN [err |-> "StopIteration", section |-> next_section,
              iter |-> Len(names), next_section |-> next_section]
        ELSE [err |-> "", section |-> next_section,
              iter |-> IndexOf(names, next_section), next_section |-> ""]
    ELSE IF iter >= Len(names)
        THEN [err |-> "StopIteration", section |-> section, iter |-> iter,
              next_section |-> ""]
    ELSE [err |-> "", section |-> names[iter + 1], iter |-> iter + 1,
          next_section |-> ""]

\* get_next_section() on the simulation s.  With a goto pending a fresh
\* iterator over config.sections() is made and walked to the target; without
\* one the iterator at hand is advanced, and next(None) raises TypeError
\* when start() has not made one.
\* started and names tell whether there is an iterator afterwards and the
\* list of names it walks.
NextSectionOf(s) ==
    IF s.next_section # "" THEN
        GetNextSection(SectionNames(s.file), s.iter, s.section, s.next_section)
            @@ [started |-> TRUE, names |-> SectionNames(s.file)]
    ELSE IF ~s.started THEN
        [err |-> "TypeError", section |-> s.section, iter |-> s.iter,
         next_section |-> "", started |-> FALSE, names |-> s.names]
    ELSE GetNextSection(s.names, s.iter, s.section, s.next_section)
            @@ [started |-> TRUE, names |-> s.names]

RECURSIVE ApplyOptions(_, _, _)
RECURSIVE UpdateFrom(_)

\* WatchpointTest.test_read / test_write for an access of kind k ("read" or
\* "write") to the register the watchpoint is set on
TestAccess(wp, k) ==
    /\ wp.cb # "none"
    /\ wp.enabled
    /\ IF k = "read" THEN wp.read ELSE wp.write

\* watchpoint.run(section): the caller's callback, run inside update() with
\* the section as pc.  "count" touches nothing of the simulation (the
\* callback of the tests), "write" writes v to field f, "sleep" calls
\* sleep(v), "update" calls update() the first time it runs.
RunCallback(st, section, now) ==
    LET called == [st EXCEPT !.callbacks = Append(@, section)]
        old == RegReadValue(FALSE, st.cached, st.memory, cache_flags)
        new == FieldWriteValue(old, st.wp.f, st.wp.v)
        inner == UpdateFrom([called EXCEPT !.wp.fired = TRUE,
                                           !.depth = st.depth + 1])
    IN  CASE st.wp.cb = "write" ->
                [called EXCEPT !.cached = WriteCache(new, FALSE, old, cache_flags),
                               !.memory = WriteMemory(new, FALSE, st.memory, cache_flags)]
          [] st.wp.cb = "sleep" ->
                [called EXCEPT !.time = Sleep(st.time, now, st.wp.v).time]
          [] st.wp.cb = "update" /\ ~st.wp.fired ->
                [inner EXCEPT !.depth = st.depth, !.running = st.running]
          [] OTHER -> called

\* Mutant: the options after a goto are skipped.
ApplyOptionGotoEnds(st, o, now) ==
    LET old == RegReadValue(FALSE, st.cached, st.memory, cache_flags)
        new == FieldWriteValue(old, o.f, o.v)
        own == st.depth = 0
        done == IF own THEN [st EXCEPT !.applied = Append(st.applied, o)] ELSE st
        after ==
            CASE o.k = "goto" -> [done EXCEPT !.next_section = o.t]
              [] o.k = "sleep" -> [done EXCEPT !.time = Sleep(st.time, now, o.v).time]
              [] o.k = "read" -> [done EXCEPT !.cached = old]
              [] OTHER ->
                    [done EXCEPT !.cached = WriteCache(new, FALSE, old, cache_flags),
                                 !.memory = WriteMemory(new, FALSE, st.memory, cache_flags),
                                 !.writes = IF own THEN st.writes + 1 ELSE st.writes]
    IN  IF st.next_section # "" THEN st
        ELSE IF o.k \in {"read", "write"} /\ TestAccess(st.wp, o.k)
             THEN RunCallback(after, st.running, now)
        ELSE after

\* One turn of the loop over the options in update(): goto sets
\* next_section, sleep arms the timer, read reads the field, any other
\* option writes its value to the field of that name; after a read or a
\* write the callback of the watchpoint that matches the access is run.
\* applied and writes record the options of the section of the call made from
\* outside (depth 0), not those of an update() made by a callback.
ApplyOption(st, o, now) ==
    LET old == RegReadValue(FALSE, st.cached, st.memory, cache_flags)
        new == FieldWriteValue(old, o.f, o.v)
        own == st.depth = 0
        done == IF own THEN [st EXCEPT !.applied = Append(st.applied, o)] ELSE st
        after ==
            CASE o.k = "goto" -> [done EXCEPT !.next_section = o.t]
              [] o.k = "sleep" -> [done EXCEPT !.time = Sleep(st.time, now, o.v).time]
              [] o.k = "read" -> [done EXCEPT !.cached = old]
              [] OTHER ->
                    [done EXCEPT !.cached = WriteCache(new, FALSE, old, cache_flags),
                                 !.memory = WriteMemory(new, FALSE, st.memory, cache_flags),
                                 !.writes = IF own THEN st.writes + 1 ELSE st.writes]
    IN  IF o.k \in {"read", "write"} /\ TestAccess(st.wp, o.k)
        THEN RunCallback(after, st.running, now)
        ELSE after

\* for option in self.config.options(section): ...; an exception raised in a
\* callback ends the loop.
ApplyOptions(st, options, now) ==
    IF options = <<>> \/ st.err # "" THEN st
    ELSE ApplyOptions(ApplyOption(st, Head(options), now), Tail(options), now)

\* The options of the section called name
OptionsOf(file, name) == file[IndexOf(SectionNames(file), name)].options

\* The body of update() on the state st of the simulation and the device
\* (depth 0 for the call made from outside, running the section whose
\* options are being applied): nothing while sleep() is true; else the next
\* section is looked up and its options are applied.
UpdateFrom(st) ==
    LET sl == Sleep(st.time, st.now, 0)
        g == NextSectionOf(st)
        found == [st EXCEPT !.time = sl.time, !.section = g.section,
                            !.iter = g.iter, !.started = g.started,
                            !.names = g.names,
                            !.next_section = g.next_section, !.err = g.err,
                            !.running = g.section,
                            !.nested = IF st.depth > 0 /\ g.err = ""
                                       THEN g.section ELSE st.nested]
    IN  IF sl.ret THEN st
        ELSE IF g.err # "" THEN found
        ELSE ApplyOptions(found, OptionsOf(st.file, g.section), st.now)

\* RegisterSimulation.update(), recorded as call op, with the callbacks it
\* runs and what they do.
Update(op, s) ==
    LET sl == Sleep(s.time, s.now, 0)
        g == NextSectionOf(s)
        rec == [s EXCEPT !.op = op, !.ret = sl.ret,
                         !.pre_time = s.time, !.pre_section = s.section,
                         !.pre_next = s.next_section, !.pre_memory = memory,
                         !.pre_started = sim.started,
                         !.pre_iter = sim.iter,
                         !.ran = IF sl.ret \/ g.err # "" THEN "" ELSE g.section,
                         !.applied = <<>>, !.writes = 0, !.err = "",
                         !.callbacks = <<>>, !.nested = ""]
    IN  \E st \in {UpdateFrom(rec @@ [memory |-> memory, cached |-> cached_value,
                                       depth |-> 0, running |-> ""])} :
        /\ sim' = [rec EXCEPT !.section = st.section, !.iter = st.iter,
                              !.started = st.started, !.names = st.names,
                              !.next_section = st.next_section,
                              !.time = st.time, !.err = st.err,
                              !.applied = st.applied, !.writes = st.writes,
                              !.callbacks = st.callbacks,
                              !.nested = st.nested, !.wp = st.wp]
        /\ memory' = st.memory
        /\ cached_value' = st.cached

\* RegisterSimulation.start(), the first time or again: a fresh iterator
\* over the sections, then update()
SimStart ==
    /\ Update("start", [sim EXCEPT !.started = TRUE, !.iter = 0,
                                   !.names = SectionNames(sim.file)])
    /\ UNCHANGED <<cache_flags, last, pending, clocks, clk_last, ocd>>

\* RegisterSimulation.update(), before or after start()
SimUpdate ==
    /\ Update("update", sim)
    /\ UNCHANGED <<cache_flags, last, pending, clocks, clk_last, ocd>>

\* The record kept in sim is that of the last start(), update() or sleep():
\* any other step, of the simulation, of the client or of the clock, clears
\* it.
NoCallOf(s) ==
    [s EXCEPT !.op = NoSim.op, !.ret = NoSim.ret, !.err = NoSim.err,
              !.ran = NoSim.ran, !.applied = NoSim.applied,
              !.writes = NoSim.writes, !.callbacks = NoSim.callbacks,
              !.nested = NoSim.nested, !.pre_time = NoSim.pre_time,
              !.pre_section = NoSim.pre_section, !.pre_next = NoSim.pre_next,
              !.pre_memory = NoSim.pre_memory,
              !.pre_started = NoSim.pre_started, !.pre_iter = NoSim.pre_iter]

\* RegisterSimulation.get_next_section() called from outside: the section
\* it returns becomes the current one and none of its options is applied.
\* The exception of next() (TypeError, StopIteration) goes to the caller
\* and leaves the simulation as the call found it, the iterator aside.
SimGetNextSection ==
    LET g == NextSectionOf(sim)
    IN  /\ sim' = [NoCallOf(sim) EXCEPT
                      !.section = g.section, !.iter = g.iter,
                      !.next_section = g.next_section,
                      !.started = g.started, !.names = g.names]
        /\ UNCHANGED <<memory, cached_value, cache_flags, last, pending, clocks,
                       clk_last, ocd>>

\* ConfigParser.read_string(new) on a parser that holds old.  The sections
\* keep their place and new ones follow; in a section already there an
\* option of the same name (Key: the text left of the `=`) takes the new
\* value where it stands and the others are appended.
MergeFile(old, new) ==
    LET Key(o) == IF o.k = "write" THEN o.f ELSE o.k
        MergeOptions(a, b) ==
            [i \in 1 .. Len(a) |->
                IF \E j \in 1 .. Len(b) : Key(b[j]) = Key(a[i])
                THEN b[CHOOSE j \in 1 .. Len(b) : Key(b[j]) = Key(a[i])]
                ELSE a[i]]
            \o SelectSeq(b, LAMBDA o : \A i \in 1 .. Len(a) : Key(a[i]) # Key(o))
    IN  [i \in 1 .. Len(old) |->
            IF IndexOf(SectionNames(new), old[i].name) = 0 THEN old[i]
            ELSE [name |-> old[i].name,
                  options |-> MergeOptions(old[i].options,
                                           OptionsOf(new, old[i].name))]]
        \o SelectSeq(new, LAMBDA sec : IndexOf(SectionNames(old), sec.name) = 0)

\* RegisterSimulation.read(file) once more, with the second file the caller
\* holds (sim.second): the file is read into the same ConfigParser; an
\* iterator at hand keeps the list of names it was made of.
SimRead ==
    /\ sim' = [NoCallOf(sim) EXCEPT !.file = MergeFile(sim.file, sim.second)]
    /\ UNCHANGED <<memory, cached_value, cache_flags, last, pending, clocks,
                   clk_last, ocd>>

\* RegisterSimulation.sleep(timeout) called from outside, as the test does
SimSleep(timeout) ==
    LET sl == Sleep(sim.time, sim.now, timeout)
    IN  /\ sim' = [NoCallOf(sim) EXCEPT !.op = "sleep", !.ret = sl.ret,
                                        !.time = sl.time]
        /\ UNCHANGED <<memory, cached_value, cache_flags, last, pending, clocks,
                       clk_last, ocd>>

\* RegiceClientTest.memory_save[0x1234], the register the files write:
\* 0x00100003, which reads A1 = 0, A2 = 1, A3 = 3.
MemorySave == 1048579

\* RegiceClientTest.watchpoint(address, length, access, callback, data) on
\* the register the files write, before or after start(): a WatchpointTest
\* is made, disabled, and self.watchpoints[address] = watchpoint puts it in
\* the table, in the place of the one that was there.
SimWatchpoint(wp) ==
    /\ sim' = [NoCallOf(sim) EXCEPT !.wp = wp]
    /\ UNCHANGED <<memory, cached_value, cache_flags, last, pending, clocks,
                   clk_last, ocd>>

\* WatchpointTest.enable() on the watchpoint of the table
WatchpointEnable ==
    /\ sim.wp.cb # "none"
    /\ sim' = [NoCallOf(sim) EXCEPT !.wp.enabled = TRUE]
    /\ UNCHANGED <<memory, cached_value, cache_flags, last, pending, clocks,
                   clk_last, ocd>>

\* WatchpointTest.disable() on the watchpoint of the table
WatchpointDisable ==
    /\ sim.wp.cb # "none"
    /\ sim' = [NoCallOf(sim) EXCEPT !.wp.enabled = FALSE]
    /\ UNCHANGED <<memory, cached_value, cache_flags, last, pending, clocks,
                   clk_last, ocd>>

\* The table is emptied, as the tests do between two runs
\* (self.client.watchpoints = {}) and by deleting the watchpoint.
WatchpointsClear ==
    /\ sim' = [NoCallOf(sim) EXCEPT !.wp = NoWp]
    /\ UNCHANGED <<memory, cached_value, cache_flags, last, pending, clocks,
                   clk_last, ocd>>

\* RegiceClientTest.memory_restore(): every address of memory_save gets its
\* saved value again, the register of the files among them.  The cache of
\* the accessor is not told.
MemoryRestore ==
    /\ memory' = MemorySave
    /\ sim' = NoCallOf(sim)
    /\ UNCHANGED <<cached_value, cache_flags, last, pending, clocks,
                   clk_last, ocd>>

\* time() moves on by a second
Tick ==
    /\ sim.now < MaxTime
    /\ sim' = [NoCallOf(sim) EXCEPT !.now = sim.now + 1]
    /\ UNCHANGED <<memory, cached_value, cache_flags, last, pending, clocks,
                   clk_last, ocd>>

\* The arguments of client.watchpoint(address, length, access, callback,
\* data) on the register the files write, as the WatchpointTest made of
\* them: disabled, with the access READ, WRITE or RW and one of the four
\* callbacks.  The callback that calls update() counts like the first once
\* it has acted.
SimWatchpoints ==
    {[NoWp EXCEPT !.read = c.read, !.write = c.write,
                  !.cb = c.cb, !.f = c.f, !.v = c.v] :
        c \in {[read |-> TRUE, write |-> FALSE, cb |-> "count", f |-> "", v |-> 0],
               [read |-> FALSE, write |-> TRUE, cb |-> "write", f |-> "A2", v |-> 0],
               [read |-> FALSE, write |-> TRUE, cb |-> "sleep", f |-> "", v |-> 3],
               [read |-> TRUE, write |-> TRUE, cb |-> "update", f |-> "", v |-> 0]}}

\* RegiceClientTest(), RegisterSimulation(client, svd) and read(file): the
\* device as memory_restore() leaves it, accessors as constructed, no
\* watchpoint in the table, one of the simulation files read.
InitSim ==
    /\ memory = MemorySave
    /\ cached_value = None
    /\ cache_flags = DISABLED
    /\ last = NoCall
    /\ pending = None
    /\ clocks = <<>>
    /\ clk_last = NoQuery
    /\ sim \in {[NoSim EXCEPT !.file = file,
                              !.second = SimFile(TRUE, <<Option("write", "A1", 1, ""),
                                                         Option("sleep", "", 2, "")>>)] :
                   file \in SimFiles}
    /\ ocd = NoOcd

NextSim ==
    \/ SimStart
    \/ SimUpdate
    \/ SimGetNextSection
    \/ SimRead
    \/ \E timeout \in {0, 1} : SimSleep(timeout)
    \/ \E wp \in SimWatchpoints : SimWatchpoint(wp)
    \/ WatchpointEnable
    \/ WatchpointDisable
    \/ WatchpointsClear
    \/ MemoryRestore
    \/ Tick

SpecSim == InitSim /\ [][NextSim]_vars

---------------------------------------------------------------------------
(* The legacy accessor (libregice/regice.py) *)

\* RegiceObject.FORCE_READ / FORCE_WRITE of regice.py
FORCE_READ == 1
FORCE_WRITE == 2

\* `not self.cached_value or self.cache_flags & self.FORCE_READ` in
\* read_cached: None and 0 are both false.
NeedLegacyRead(cached, flags) ==
    cached = None \/ cached = 0 \/ BitAnd(flags, FORCE_READ) # 0

\* RegiceRegister.read() of regice.py: always from the Port
LegacyRead ==
    /\ cached_value' = memory
    /\ last' = [NoCall EXCEPT !.op = "legacy_read", !.ret = memory,
                   !.port_reads = 1, !.port_ret = memory,
                   !.pre_memory = memory, !.pre_cached = cached_value]
    /\ UNCHANGED <<memory, cache_flags, pending, clocks, clk_last, sim, ocd>>

\* RegiceRegister.write(value) of regice.py: the value (the cached one when
\* None is given) goes to the Port, then read() refreshes the cache.  With
\* nothing given and nothing cached the Port is handed None and gives it
\* back.
LegacyWrite(v) ==
    LET value == IF v = None THEN cached_value ELSE v
    IN  /\ memory' = value
        /\ cached_value' = value
        /\ last' = [NoCall EXCEPT !.op = "legacy_write", !.v = v,
                       !.port_reads = 1, !.port_writes = 1, !.port_ret = value,
                       !.pre_memory = memory, !.pre_cached = cached_value]
        /\ UNCHANGED <<cache_flags, pending, clocks, clk_last, sim, ocd>>

\* RegiceRegister.read_cached()
LegacyReadCached ==
    LET port == NeedLegacyRead(cached_value, cache_flags)
        value == IF port THEN memory ELSE cached_value
    IN  /\ cached_value' = value
        /\ last' = [NoCall EXCEPT !.op = "read_cached", !.ret = value,
                       !.port_reads = Count(port),
                       !.port_ret = IF port THEN memory ELSE None,
                       !.pre_memory = memory, !.pre_cached = cached_value]
        /\ UNCHANGED <<memory, cache_flags, pending, clocks, clk_last, sim, ocd>>

\* RegiceRegister.write_cached(value): into the cache, and through write()
\* to the Port when FORCE_WRITE is set
LegacyWriteCached(v) ==
    LET port == BitAnd(cache_flags, FORCE_WRITE) # 0
    IN  /\ cached_value' = v
        /\ memory' = IF port THEN v ELSE memory
        /\ last' = [NoCall EXCEPT !.op = "write_cached", !.v = v,
                       !.port_reads = Count(port), !.port_writes = Count(port),
                       !.port_ret = IF port THEN v ELSE None,
                       !.pre_memory = memory, !.pre_cached = cached_value]
        /\ UNCHANGED <<cache_flags, pending, clocks, clk_last, sim, ocd>>

\* reg OP= k of regice.py: n = self.read_cached() on the register, then
\* write_cached(n OP k) on a NEW RegiceRegister (_new_obj: nothing cached,
\* the same flags), which is returned and to which the statement rebinds
\* the register's name.  The register's cache is from then on the new
\* object's: n OP k, which with FORCE_WRITE also goes to the Port and is
\* read back.  A register that reads as None (TypeError) or a division by
\* 0 raises after read_cached(): nothing is rebound, and the cache holds
\* what read_cached() left in it.  Steps whose result is not an unsigned
\* value of RegBits bits are left out.
LegacyInPlaceOp(op, k) ==
    LET port == NeedLegacyRead(cached_value, cache_flags)
        n == IF port THEN memory ELSE cached_value
        raises == n = None \/ (op \in {"/", "%"} /\ k = 0)
        value == IF raises THEN None ELSE InPlaceValue(op, n, k)
        wport == ~raises /\ BitAnd(cache_flags, FORCE_WRITE) # 0
    IN  /\ raises \/ value \in 0 .. (2 ^ RegBits - 1)
        /\ cached_value' = IF raises THEN n ELSE value
        /\ memory' = IF wport THEN value ELSE memory
        /\ last' = [NoCall EXCEPT !.op = "legacy_inplace", !.opr = op, !.v = k,
                       !.ret = value, !.wrote = value,
                       !.err = IF n = None THEN "TypeError"
                              ELSE IF raises THEN "ZeroDivisionError" ELSE "",
                       !.port_reads = Count(port) + Count(wport),
                       !.port_writes = Count(wport),
                       !.port_ret = IF port THEN memory ELSE None,
                       !.pre_memory = memory, !.pre_cached = cached_value]
        /\ UNCHANGED <<cache_flags, pending, clocks, clk_last, sim, ocd>>

\* RegiceDevice(svd, client, cache_flags): nothing cached, the flags given
\* to the constructor; the device holds any RegBits-wide value.
InitLegacy ==
    /\ memory \in 0 .. (2 ^ RegBits - 1)
    /\ cached_value = None
    /\ cache_flags \in {0, FORCE_READ, FORCE_WRITE, FORCE_READ + FORCE_WRITE}
    /\ last = NoCall
    /\ pending = None
    /\ clocks = <<>>
    /\ clk_last = NoQuery
    /\ sim = NoSim
    /\ ocd = NoOcd

NextLegacy ==
    \/ LegacyRead
    \/ \E v \in Values \cup {None} : LegacyWrite(v)
    \/ LegacyReadCached
    \/ \E v \in Values : LegacyWriteCached(v)
    \/ \E op \in {"+", "-", "*", "/", "%", "&", "|", "^", "<<", ">>", "**"} :
          \E k \in 0 .. MaxOperand : LegacyInPlaceOp(op, k)

SpecLegacy == InitLegacy /\ [][NextLegacy]_vars

---------------------------------------------------------------------------
(* The accessors under the transparent and the read-through policy *)

\* The calls of Next with cache_configure handing over DISABLED or READ only:
\* no write is ever deferred.
NextCoherent ==
    \/ \E force \in BOOLEAN : RegisterRead(force)
    \/ \E v \in Values, force \in BOOLEAN : RegisterWrite(v, force)
    \/ \E f \in FieldNames \ {"A1"}, force \in BOOLEAN : FieldRead(f, force)
    \/ \E f \in FieldNames \ {"A1"}, v \in Values, fr \in BOOLEAN,
             fw \in BOOLEAN :
          FieldWrite(f, v, fr, fw)
    \/ Flush
    \/ \E flags \in {DISABLED, READ} : CacheConfigure(flags)

SpecCoherent == Init /\ [][NextCoherent]_vars

---------------------------------------------------------------------------
(* The accessors over a Port that fails *)

\* RegiceRegister.read(force) when client.read raises: the assignment to
\* cached_value is not reached and the exception leaves read().
RegisterReadFails(force) ==
    /\ NeedPortRead(force, cached_value, cache_flags)
    /\ last' = [NoCall EXCEPT !.op = "read", !.force_read = force,
                   !.port_reads = 1, !.err = "PortError",
                   !.pre_memory = memory, !.pre_cached = cached_value]
    /\ pending' = None
    /\ UNCHANGED <<memory, cached_value, cache_flags, clocks, clk_last, sim, ocd>>

\* RegiceRegister.write(value, force) when client.write raises:
\* self.cached_value = value has been executed before the Port is called.
RegisterWriteFails(v, force) ==
    /\ NeedPortWrite(force, cache_flags)
    /\ cached_value' = WriteCache(v, force, cached_value, cache_flags)
    /\ last' = [NoCall EXCEPT !.op = "write", !.v = v, !.force_write = force,
                   !.port_writes = 1, !.err = "PortError",
                   !.pre_memory = memory, !.pre_cached = cached_value]
    /\ pending' = None
    /\ UNCHANGED <<memory, cache_flags, clocks, clk_last, sim, ocd>>

NextPortFails ==
    \/ Next
    \/ \E force \in BOOLEAN : RegisterReadFails(force)
    \/ \E v \in Values, force \in BOOLEAN : RegisterWriteFails(v, force)

SpecPortFails == Init /\ [][NextPortFails]_vars

---------------------------------------------------------------------------
(* Claims about the accessors, checked under Spec *)

\* What Register.read() / Field.read(f) without force return in this state.
ReadsAs == RegReadValue(FALSE, cached_value, memory, cache_flags)
ReadBefore == RegReadValue(FALSE, last.pre_cached, last.pre_memory, cache_flags)

\* C1 (as claimed): after Field.write(f, v), for any non-negative v and under
\* every cache policy, Field.read(f) returns v & ((1 << w) - 1) and every bit of
\* the register outside the field's span has the value it had before the write.
C1_FieldWriteMasksAndKeepsOtherBits ==
    last.op = "field_write" =>
        /\ FieldOf(ReadsAs, last.f) = BitAnd(last.v, LowMask(last.f))
        /\ AndNot(ReadsAs, SpanMask(last.f)) = AndNot(ReadBefore, SpanMask(last.f))

\* C2 (as claimed): Register.read(force) issues exactly one Port read when
\* force is set, or nothing is cached, or the READ flag is clear, and otherwise
\* issues none and returns the cached value.  Hence every read issues a Port
\* read under the transparent policy, and under read-through a read that
\* follows a read issues none.  (C2_ReadCost, the first sentence, holds in
\* every state; the second read is not free once flush() with an empty cache
\* has stored None in the device, for None is also what "nothing cached" is.)
C2_ReadCost ==
    last.op = "read" =>
        /\ last.port_reads =
              IF last.force_read \/ last.pre_cached = None
                 \/ cache_flags \in {DISABLED, WRITE}
              THEN 1 ELSE 0
        /\ last.port_reads = 0 => last.ret = last.pre_cached
        /\ cache_flags = DISABLED => last.port_reads = 1

C2_SecondReadIsFree ==
    (last.op = "read" /\ last'.op = "read" /\ cache_flags = READ
        /\ ~last'.force_read) => last'.port_reads = 0

C2_ReadIssuesPortReadOnlyWhenNeeded ==
    []C2_ReadCost /\ [][C2_SecondReadIsFree]_vars

\* C3 (as claimed): with the WRITE flag set, Register.write and Field.write
\* without force issue no Port write and leave device memory as it was; with
\* the WRITE flag clear (transparent, read-through) every write issues one Port
\* write of the register's new value.
C3_DeferredWritesStayInCache ==
    last.op \in {"write", "field_write"} =>
        IF cache_flags \in {WRITE, READ + WRITE} /\ ~last.force_write
        THEN last.port_writes = 0 /\ memory = last.pre_memory
        ELSE last.port_writes = 1 /\ memory = cached_value

\* C4 (as claimed): whenever WRITE is set (alone or with READ), flush() after a
\* run of unforced Register / Field writes leaves on the device the value
\* obtained by applying those writes in order to the register's value before
\* the first of them.
C4_FlushCommitsAllDeferredWrites ==
    (last.op = "flush" /\ last.ret # None) => memory = last.ret

\* C5: after Register.write(v), forced or not, cached_value = v; after a
\* Register.read that issued a Port read, cached_value is what the Port
\* returned; read() returns cached_value.
C5_CacheReflectsLastAccess ==
    /\ last.op = "write" => cached_value = last.v
    /\ (last.op = "read" /\ last.port_reads = 1) => cached_value = last.port_ret
    /\ last.op = "read" => last.ret = cached_value

C5_Witness ==
    /\ last.op = "write"
    /\ last.force_write
    /\ cache_flags = WRITE
    /\ cached_value = last.v
    /\ last.pre_cached # None
    /\ last.pre_cached # last.v

---------------------------------------------------------------------------
(* Claims about the clock nodes, checked under SpecClock *)

RECURSIVE ParentChain(_, _)
\* The node and the nodes above it along the configured `parent` links.
ParentChain(n, seen) ==
    IF n = "" \/ n \notin DOMAIN clocks \/ n \in seen THEN seen
    ELSE ParentChain(clocks[n].parent, seen \cup {n})

\* No node of the chain is locally disabled.
ChainLocallyEnabled(n) ==
    \A a \in ParentChain(n, {}) :
        LocalEnabled(a).err = "" /\ LocalEnabled(a).val

\* The bit a field reads on the device
Bit(f) == FieldOf(memory, f)

\* C6: enabled(node) is local_enable(node) AND enabled(parent(node)) all the
\* way up the configured parent links (local_enable alone for a node without
\* a parent), and is_gated(name) is true whenever the node or a node above it
\* in that chain is locally disabled.
C6_EnabledIsLocalAndParents ==
    /\ (clk_last.op = "enabled" /\ clk_last.err = "") =>
          clk_last.en = ChainLocallyEnabled(clk_last.name)
    /\ (clk_last.op = "is_gated" /\ clk_last.err = "" /\ clk_last.name # "") =>
          clk_last.en = ~ChainLocallyEnabled(clk_last.name)

C6_Witness ==
    /\ clk_last.op = "is_gated"
    /\ clk_last.name = "pll1"
    /\ clk_last.err = ""
    /\ clk_last.en
    /\ clocks["gate1"].parent = "div1"
    /\ clocks["div1"].parent = "osc1"
    /\ \A a \in {"pll1", "gate1", "div1"} : LocalEnabled(a).val
    /\ ~LocalEnabled("osc1").val

\* C7 (as claimed): Mux.enabled() is false when the selector resolves to no
\* parent and otherwise is enabled() of the selected parent, so that every
\* node below a Mux whose selected parent is disabled is gated.
C7_MuxEnabledIsSelectedParentEnabled ==
    /\ (clk_last.op = "enabled" /\ clk_last.err = ""
           /\ clocks[clk_last.name].kind = "Mux") =>
          LET p == GetParent(clk_last.name)
          IN  IF p.val = "" THEN clk_last.en = FALSE
              ELSE Enabled(p.val, MaxDepth).err = "" =>
                      clk_last.en = Enabled(p.val, MaxDepth).val
    /\ (clk_last.op = "is_gated" /\ clk_last.err = "" /\ clk_last.name # "") =>
          \A m \in ParentChain(clk_last.name, {}) :
              (/\ clocks[m].kind = "Mux"
               /\ GetParent(m).err = ""
               /\ GetParent(m).val # ""
               /\ Enabled(GetParent(m).val, MaxDepth).err = ""
               /\ ~Enabled(GetParent(m).val, MaxDepth).val) => clk_last.en

\* C8 (as claimed): get_frequency of a Fixed node is its constant; of a valid
\* Gate or Divider without a configured parent, and of a Mux resolving to no
\* parent, it is 0 and nothing is raised.
C8_NoParentGivesZeroFrequency ==
    (clk_last.op = "get_freq" /\ clk_last.name \in DOMAIN clocks
        /\ Check(clk_last.name) = "") =>
        LET c == clocks[clk_last.name]
        IN  /\ c.kind = "Fixed" => (clk_last.err = "" /\ clk_last.freq = c.freq)
            /\ (c.kind \in {"Gate", "Divider"} /\ c.parent = "") =>
                  (clk_last.err = "" /\ clk_last.freq = 0)
            /\ (c.kind = "Mux" /\ GetParent(clk_last.name).err = ""
                   /\ GetParent(clk_last.name).val = "") =>
                  (clk_last.err = "" /\ clk_last.freq = 0)

\* g is the gate of a chain Fixed -> Divider (static div > 0) -> Gate (enable
\* field compared with 1, no ready field).
IsFixedDividerGate(g) ==
    /\ g \in DOMAIN clocks
    /\ clocks[g].kind = "Gate"
    /\ clocks[g].rdy_field = "" /\ clocks[g].en_field # "" /\ clocks[g].en_val = 1
    /\ clocks[g].parent \in DOMAIN clocks
    /\ LET d == clocks[clocks[g].parent]
       IN  /\ d.kind = "Divider" /\ ~d.get_div.set /\ d.div # None /\ d.div > 0
           /\ d.parent \in DOMAIN clocks
           /\ clocks[d.parent].kind = "Fixed"
           /\ clocks[d.parent].freq # None

ChainDiv(g) == clocks[clocks[g].parent].div
ChainFreq(g) == clocks[clocks[clocks[g].parent].parent].freq

\* C9: for Fixed(F) -> Divider(D > 0) -> Gate(bit B), get_frequency(gate) is
\* the integer quotient F div D when B = 1, and enabled(gate) is false when
\* B = 0, whatever F and D.
C9_ChainFrequencyAndGate ==
    IsFixedDividerGate(clk_last.name) =>
        LET g == clk_last.name
            B == Bit(clocks[g].en_field)
        IN  /\ (clk_last.op = "get_freq" /\ B = 1) =>
                  (clk_last.err = "" /\ clk_last.freq = ChainFreq(g) \div ChainDiv(g))
            /\ (clk_last.op = "enabled" /\ B = 0) =>
                  (clk_last.err = "" /\ clk_last.en = FALSE)

C9_Witness ==
    /\ IsFixedDividerGate(clk_last.name)
    /\ clk_last.op = "get_freq"
    /\ Bit(clocks[clk_last.name].en_field) = 1
    /\ ChainDiv(clk_last.name) > 1
    /\ clk_last.freq * ChainDiv(clk_last.name) # ChainFreq(clk_last.name)
    /\ clk_last.freq = ChainFreq(clk_last.name) \div ChainDiv(clk_last.name)

\* The selector value of Mux c: the selector function's when one is
\* configured, else the selector field's.
SelectorOf(c) == IF c.get_mux.set THEN c.get_mux.ret ELSE Bit(c.mux_field)

\* C10: a Mux's parent is the slot stored at its current selector value.  With
\* parents {0: A, 1: B, 3: None}: selector 3 gives get_parent() None,
\* get_frequency() 0 and enabled() false, none raising; selector 1 gives B.
C10_MuxParentIsSelectedSlot ==
    (clk_last.name \in DOMAIN clocks /\ clocks[clk_last.name].kind = "Mux"
        /\ Check(clk_last.name) = "") =>
        LET c == clocks[clk_last.name]
            sel == SelectorOf(c)
        IN  /\ (clk_last.op = "get_parent" /\ sel \in DOMAIN c.parents) =>
                  (clk_last.err = "" /\ clk_last.parent = c.parents[sel])
            /\ (c.parents = TestMuxParents /\ sel = 3) =>
                  /\ clk_last.op = "get_parent" =>
                        (clk_last.err = "" /\ clk_last.parent = "")
                  /\ clk_last.op = "get_freq" =>
                        (clk_last.err = "" /\ clk_last.freq = 0)
                  /\ clk_last.op = "enabled" =>
                        (clk_last.err = "" /\ clk_last.en = FALSE)
            /\ (c.parents = TestMuxParents /\ sel = 1
                   /\ clk_last.op = "get_parent") =>
                  (clk_last.err = "" /\ clk_last.parent = "osc2")

C10_Witness ==
    /\ clk_last.op = "enabled"
    /\ clk_last.name = "mux1"
    /\ clocks["mux1"].parents = TestMuxParents
    /\ ~clocks["mux1"].get_mux.set
    /\ Bit("A3") = 3
    /\ clk_last.err = ""
    /\ clk_last.en = FALSE

---------------------------------------------------------------------------
(* Claims about the registry, checked under SpecTree *)

\* Mux m is configured well (slots, selector, known parents) and its selector
\* now reads a value that has no slot.
SelectorWithoutSlot(m) ==
    /\ m \in DOMAIN clocks
    /\ clocks[m].kind = "Mux"
    /\ KindCheck(clocks[m]) = ""
    /\ MuxSelectors[m] \notin DOMAIN clocks[m].parents

\* C11 (as claimed): a Mux whose current selector value has no entry in its
\* parents map fails validation: check() raises, build() returns False and
\* ClockTree.build() returns False for a registry holding it.
C11_SelectorWithoutSlotFailsValidation ==
    \A m \in DOMAIN clocks : SelectorWithoutSlot(m) =>
        /\ (clk_last.op = "check" /\ clk_last.name = m) => clk_last.err # ""
        /\ (clk_last.op = "build" /\ clk_last.name = m) => ~clk_last.ok
        /\ clk_last.op = "tree_build" => ~clk_last.ok

\* C17: for no name, get gives None, get_freq 0 and is_gated True, none
\* raising; for a name that is not registered each raises UnknownClock; for a
\* registered name get_freq is the clock's get_freq() and is_gated is
\* not enabled().
C17_RegistryNameHandling ==
    clk_last.op \in {"get", "get_freq", "is_gated"} =>
        IF clk_last.name = "" THEN
            /\ clk_last.err = ""
            /\ clk_last.op = "get" => clk_last.parent = ""
            /\ clk_last.op = "get_freq" => clk_last.freq = 0
            /\ clk_last.op = "is_gated" => clk_last.en = TRUE
        ELSE IF clk_last.name \notin DOMAIN clocks THEN
            clk_last.err = "UnknownClock"
        ELSE
            /\ clk_last.op = "get" =>
                  (clk_last.err = "" /\ clk_last.parent = clk_last.name)
            /\ clk_last.op = "get_freq" =>
                  /\ clk_last.err = GetFreq(clk_last.name, MaxDepth).err
                  /\ clk_last.err = "" =>
                        clk_last.freq = GetFreq(clk_last.name, MaxDepth).val
            /\ clk_last.op = "is_gated" =>
                  /\ clk_last.err = Enabled(clk_last.name, MaxDepth).err
                  /\ clk_last.err = "" =>
                        clk_last.en = ~Enabled(clk_last.name, MaxDepth).val

C17_Witness ==
    \/ clk_last.op = "is_gated" /\ clk_last.name = "" /\ clk_last.en
    \/ clk_last.op = "get_freq" /\ clk_last.name = "nope"
          /\ clk_last.err = "UnknownClock"

\* The registry is TestClockTree's: osc1..osc3 without parent, mux1 over
\* {0: osc1, 1: osc2, 2: osc3, 3: osc3}, and nothing added.
IsTestClockTree ==
    /\ clocks["mux1"].parents = TestTreeParents
    /\ "div4" \notin DOMAIN clocks

\* n has no configured parent and, if a Mux, no declared slot
IsRoot(n) ==
    /\ clocks[n].parent = ""
    /\ clocks[n].kind = "Mux" => DOMAIN clocks[n].parents = {}

\* C18: get_orphans returns exactly the clocks without a configured parent
\* and (Mux) without declared slots: a clock a Mux can select is still a root,
\* a Mux with a slot never is, whatever its selector reads; in TestClockTree's
\* registry the roots are osc1, osc2, osc3.
C18_OrphansAreClocksWithoutParentOrSlots ==
    clk_last.op = "get_orphans" =>
        /\ clk_last.err = ""
        /\ \A n \in DOMAIN clocks : (n \in clk_last.names) = IsRoot(n)
        /\ clk_last.names \subseteq DOMAIN clocks
        /\ IsTestClockTree => clk_last.names = {"osc1", "osc2", "osc3"}

C18_Witness ==
    /\ clk_last.op = "get_orphans"
    /\ clocks["mux1"].parents = TestMuxParents
    /\ MuxSelectors["mux1"] = 3
    /\ "mux1" \notin clk_last.names
    /\ "osc1" \in clk_last.names

\* C19: get_children(name) returns exactly the clocks whose configured parent
\* is name and every Mux with name among its declared slots, whatever the
\* Mux's selector reads; in TestClockTree's registry the children of osc1 are
\* div1 and mux1.
C19_ChildrenAreByParentOrAnySlot ==
    clk_last.op = "get_children" =>
        /\ clk_last.err = ""
        /\ clk_last.names \subseteq DOMAIN clocks
        /\ \A n \in DOMAIN clocks :
              (n \in clk_last.names) =
                 (\/ clocks[n].parent = clk_last.name
                  \/ /\ clocks[n].kind = "Mux"
                     /\ clk_last.name \in
                           {clocks[n].parents[k] : k \in DOMAIN clocks[n].parents})
        /\ (IsTestClockTree /\ clk_last.name = "osc1") =>
              clk_last.names = {"div1", "mux1"}

C19_Witness ==
    /\ clk_last.op = "get_children"
    /\ clk_last.name = "osc1"
    /\ IsTestClockTree
    /\ MuxSelectors["mux1"] = 2
    /\ clk_last.names = {"div1", "mux1"}

\* Last key of a path and the key above it ("" at the top level)
Leaf(path) == path[Len(path)]
Above(path) == IF Len(path) = 1 THEN "" ELSE path[Len(path) - 1]

\* The parent a clock is to be nested under: the resolved one for a Mux with
\* slots, the configured one otherwise.
NestParent(n) ==
    IF clocks[n].kind = "Mux" /\ DOMAIN clocks[n].parents # {}
    THEN GetParent(n).val ELSE clocks[n].parent

\* The tree just returned by make_tree: the roots are its top-level keys,
\* every key lies under the parent it is to be nested under and nowhere
\* else, and a Mux resolving to no parent is left out.
TreeShape ==
    (clk_last.op = "make_tree" /\ clk_last.err = "") =>
        /\ {Leaf(q) : q \in {r \in clk_last.tree : Len(r) = 1}} = GetOrphans
        /\ \A q \in clk_last.tree :
              /\ Len(q) > 1 => NestParent(Leaf(q)) = Above(q)
              /\ SubSeq(q, 1, Len(q) - 1) \in clk_last.tree \cup {<<>>}
              /\ \A r \in clk_last.tree : Leaf(r) = Leaf(q) => r = q
        /\ \A n \in DOMAIN clocks :
              (\E q \in clk_last.tree : Leaf(q) = NestParent(n)) =>
                 (\E r \in clk_last.tree : Leaf(r) = n /\ Above(r) = NestParent(n))
        /\ \A n \in DOMAIN clocks :
              (clocks[n].kind = "Mux" /\ DOMAIN clocks[n].parents # {}
                  /\ GetParent(n).val = "") =>
                 ~\E r \in clk_last.tree : Leaf(r) = n

\* The parents the Muxes resolve to under selector values sels
ResolvedAt(sels) ==
    [m \in DOMAIN sels |->
        IF sels[m] \in DOMAIN clocks[m].parents THEN clocks[m].parents[sels[m]]
        ELSE "?"]

\* make_tree returns in this step and a tree made earlier is at hand
SecondTree ==
    /\ clk_last.tree_made
    /\ clk_last'.op = "make_tree" /\ clk_last'.err = ""

\* ... and no clock was added to the registry since that tree was made
SecondTreeSameClocks == SecondTree /\ clk_last.tree_clocks = clocks'

\* C20 (as claimed): the tree has the shape above, and between two calls on
\* the same registry the shape changes if and only if a selector's value
\* changed in between.
C20_TreeChangesIffSelectorChanged ==
    /\ []TreeShape
    /\ [][SecondTreeSameClocks =>
            ((clk_last'.tree # clk_last.tree)
                <=> (MuxSelectors' # clk_last.tree_sels))]_vars

\* C20 (amended): the tree has the shape above; between two calls on the same
\* registry the shape changes only if a selector's value changed in between,
\* and it stays the same when every Mux resolves to the parent it resolved to
\* before.
C20_TreeFollowsResolvedParents ==
    /\ []TreeShape
    /\ [][SecondTreeSameClocks =>
            /\ (clk_last'.tree # clk_last.tree) =>
                  (MuxSelectors' # clk_last.tree_sels)
            /\ (ResolvedAt(MuxSelectors') = ResolvedAt(clk_last.tree_sels)) =>
                  (clk_last'.tree = clk_last.tree)]_vars

C20_Witness ==
    /\ clk_last.op = "make_tree" /\ clk_last.err = ""
    /\ IsTestClockTree
    /\ MuxSelectors["mux1"] = 3
    /\ <<"osc3", "mux1", "div2", "gate2", "div3">> \in clk_last.tree
    /\ <<"osc1", "mux1">> \notin clk_last.tree
    /\ <<"osc1", "div1", "gate1">> \in clk_last.tree

---------------------------------------------------------------------------
(* Claims about dividers and gates, checked under SpecDivider *)

\* The clock the last query was about, when it is a Divider
AskedDivider ==
    /\ clk_last.name \in DOMAIN clocks
    /\ clocks[clk_last.name].kind = "Divider"

\* Where a divisor of 0 comes from: a static div of 0 (no field behind it),
\* the selector field reading 0 (taken raw), a table entry equal to 0, the
\* external function returning 0.
StaticZero(c) == ~c.get_div.set /\ c.div = 0 /\ c.div_field = ""
FieldZero(c) ==
    /\ ~c.get_div.set /\ c.div = None /\ c.div_field # ""
    /\ DOMAIN c.div_table = {}
    /\ c.div_type \in {ONE_BASED, ZERO_TO_GATE}
    /\ Bit(c.div_field) = 0
TableZero(c) ==
    /\ ~c.get_div.set /\ c.div = None /\ c.div_field # ""
    /\ Bit(c.div_field) \in DOMAIN c.div_table
    /\ c.div_table[Bit(c.div_field)] = 0
FunctionZero(c) == c.get_div.set /\ c.get_div.ret = 0
ResolvesToZero(c) == StaticZero(c) \/ FieldZero(c) \/ TableZero(c) \/ FunctionZero(c)

\* C12 (as claimed): a Divider in zero-to-gate mode whose divisor resolves to
\* 0, from whichever source, has get_freq() 0 and enabled() False, and
\* nothing is raised.
C12_ZeroToGateGatesOnZero ==
    (AskedDivider /\ clocks[clk_last.name].div_type = ZERO_TO_GATE
        /\ ResolvesToZero(clocks[clk_last.name])) =>
        /\ clk_last.op = "get_freq" => (clk_last.err = "" /\ clk_last.freq = 0)
        /\ clk_last.op = "enabled" => (clk_last.err = "" /\ clk_last.en = FALSE)

\* The Divider asked is in another mode than zero-to-gate and its divisor
\* resolves to 0.
ZeroOutsideZeroToGate ==
    /\ AskedDivider
    /\ clocks[clk_last.name].div_type # ZERO_TO_GATE
    /\ ResolvesToZero(clocks[clk_last.name])

\* C13 (as claimed): outside zero-to-gate mode a divisor resolving to 0 makes
\* get_freq() raise InvalidDivider, no other error and no number.
C13_ZeroDivisorRaisesInvalidDivider ==
    (ZeroOutsideZeroToGate /\ clk_last.op = "get_freq") =>
        clk_last.err = "InvalidDivider"

\* C13 (amended): outside zero-to-gate mode a divisor resolving to 0 makes
\* get_freq() raise and return no number: ZeroDivisionError when the 0 comes
\* from the field, the table or the external function, InvalidDivider when it
\* is a static div of 0.
C13_ZeroDivisorRaises ==
    (ZeroOutsideZeroToGate /\ clk_last.op = "get_freq") =>
        clk_last.err = (IF StaticZero(clocks[clk_last.name]) THEN "InvalidDivider"
                        ELSE "ZeroDivisionError")

C13_Witness ==
    /\ ZeroOutsideZeroToGate
    /\ clk_last.op = "get_freq"
    /\ FunctionZero(clocks[clk_last.name])
    /\ clk_last.err = "ZeroDivisionError"

\* C14 (as claimed): a Divider's enabled() is True only with a divisor that
\* resolves to a non-zero value and an enabled parent; outside zero-to-gate
\* mode, with a divisor resolving to 0, enabled() never returns True.
C14_ZeroDivisorNeverEnabled ==
    (AskedDivider /\ clk_last.op = "enabled" /\ clk_last.err = "" /\ clk_last.en) =>
        /\ ~ResolvesToZero(clocks[clk_last.name])
        /\ Enabled(clocks[clk_last.name].parent, MaxDepth).val

\* C15: _get_div from a selector field: table[field value] with a table (a
\* value without entry raising InvalidDivider), else the field value in
\* one-based mode, 1 << field value in power-of-two mode, InvalidDivider in
\* an unknown mode; the external function's result replaces all of these.
C15_DivisorResolution ==
    (AskedDivider /\ clk_last.op = "get_div") =>
        LET c == clocks[clk_last.name]
            v == Bit(c.div_field)
        IN  IF c.get_div.set THEN
                clk_last.err = "" /\ clk_last.freq = c.get_div.ret
            ELSE (c.div = None /\ c.div_field # "") =>
                IF DOMAIN c.div_table # {} THEN
                    IF v \in DOMAIN c.div_table
                    THEN clk_last.err = "" /\ clk_last.freq = c.div_table[v]
                    ELSE clk_last.err = "InvalidDivider"
                ELSE /\ c.div_type = ONE_BASED =>
                          (clk_last.err = "" /\ clk_last.freq = v)
                     /\ c.div_type = POWER_OF_TWO =>
                          (clk_last.err = "" /\ clk_last.freq = 2 ^ v)
                     /\ c.div_type = UnknownType => clk_last.err = "InvalidDivider"

C15_Witness ==
    /\ AskedDivider /\ clk_last.op = "get_div"
    /\ DOMAIN clocks[clk_last.name].div_table # {}
    /\ clocks[clk_last.name].div_type = POWER_OF_TWO
    /\ Bit("A3") = 3
    /\ clk_last.freq = MaxDiv + 1

\* C16: a Gate is locally enabled iff its ready field reads rdy_val when it
\* has one, whatever the enable field reads, and otherwise iff its enable
\* field reads en_val; both default to 1; its get_freq() is its parent's
\* whatever the gate's state.
C16_GateLocalTest ==
    /\ (clk_last.op = "enabled" /\ clk_last.name = "gate") =>
          LET c == clocks["gate"]
          IN  /\ clk_last.err = ""
              /\ clk_last.en = (IF c.rdy_field # "" THEN Bit(c.rdy_field) = c.rdy_val
                                ELSE Bit(c.en_field) = c.en_val)
    /\ (clk_last.op = "get_freq" /\ clk_last.name = "gate1") =>
          /\ clk_last.err = GetFreq("div1", MaxDepth).err
          /\ clk_last.err = "" => clk_last.freq = GetFreq("div1", MaxDepth).val
          /\ (clocks["div1"].div = MaxDiv /\ ~clocks["div1"].get_div.set) =>
                (clk_last.err = "" /\ clk_last.freq = MaxFreq \div MaxDiv)
    /\ MkGate("", "A2").en_val = 1 /\ MkGate("", "A2").rdy_val = 1

C16_Witness ==
    /\ clk_last.op = "enabled" /\ clk_last.name = "gate"
    /\ clocks["gate"].rdy_field = "A1"
    /\ Bit("A1") = clocks["gate"].rdy_val
    /\ Bit("A2") # clocks["gate"].en_val
    /\ clk_last.en

---------------------------------------------------------------------------
(* Claims about validation, checked under SpecTree and SpecNode *)

\* The registry of TestClockTree.test_build once Divider(name='div4',
\* device=dev) has been added: div4 has no div, no div_field, no function.
Div4Added ==
    /\ clocks["mux1"].parents = TestTreeParents
    /\ "div4" \in Registry
    /\ clocks["div4"].kind = "Divider"
    /\ clocks["div4"].div = None /\ clocks["div4"].div_field = ""
    /\ ~clocks["div4"].get_div.set

\* C21: ClockTree.build() never raises and returns true iff build() of every
\* registered clock returns true; in TestClockTree's registry with one
\* Divider missing both div and div_field it returns false, that divider is
\* reported invalid and every other clock is still reported valid.
C21_TreeBuildIsAllOfBuild ==
    clk_last.op = "tree_build" =>
        /\ clk_last.err = ""
        /\ clk_last.ok = (\A n \in DOMAIN clocks : Build(n).val)
        /\ Div4Added =>
              /\ ~clk_last.ok
              /\ ~Build("div4").val
              /\ \A n \in DOMAIN clocks \ {"div4"} : Build(n).val

C21_Witness ==
    /\ clk_last.op = "tree_build"
    /\ Div4Added
    /\ ~clk_last.ok
    /\ Build("osc1").val /\ Build("mux1").val

\* C22 (as claimed): for every clock object, build() returns false exactly
\* when check() of the same object would raise, and true exactly when check()
\* would return.
C22_BuildIsCheckAsBoolean ==
    clk_last.op = "build" => clk_last.ok = (Check(clk_last.name) = "")

\* The configuration the claim calls missing: no name, no registry, or the
\* kind's required attributes (read off the constructor arguments).
MissingOf(c) ==
    (IF c.name = "" THEN {"name"} ELSE {})
    \cup (IF ~c.device THEN {"tree"} ELSE {})
    \cup (IF c.kind = "Fixed" /\ c.freq = None THEN {"freq"} ELSE {})
    \cup (IF c.kind = "Gate" /\ c.en_field = "" THEN {"en_field"} ELSE {})
    \cup (IF c.kind = "PLL" /\ ~c.get_freq.set THEN {"get_freq"} ELSE {})
    \cup (IF c.kind = "Mux" /\ DOMAIN c.parents = {} THEN {"parents"} ELSE {})
    \cup (IF c.kind = "Mux" /\ c.mux_field = "" /\ ~c.get_mux.set
          THEN {"mux_field", "ext_get_mux"} ELSE {})
    \cup (IF c.kind = "Divider" /\ c.div = None /\ c.div_field = ""
             /\ ~c.get_div.set
          THEN {"div", "div_field"} ELSE {})

\* The attributes an error's arguments list
ArgAttrs(args) == {args[2][i] : i \in 1 .. Len(args[2])}

\* C23 (as claimed): for a clock lacking a name, a registry or the required
\* configuration of its kind, each of get_freq(), get_parent() and enabled()
\* raises a configuration error before any Port read; the error lists
\* attributes that are missing and, for a clock that has a name, names it.
C23_QueriesFailFastNamingTheClock ==
    (/\ clk_last.op \in {"clock_get_freq", "get_parent", "enabled"}
     /\ MissingOf(clocks[clk_last.name]) # {}) =>
        /\ clk_last.err \in {"MissingAttribute", "MissingAttributes"}
        /\ clk_last.reads = 0
        /\ clk_last.args # <<>>
        /\ ArgAttrs(clk_last.args) # {}
        /\ ArgAttrs(clk_last.args) \subseteq MissingOf(clocks[clk_last.name])
        /\ clocks[clk_last.name].name # "" =>
              clk_last.args[1] = clocks[clk_last.name].name

---------------------------------------------------------------------------
(* Claims about cycles of parent links, checked under SpecCycle *)

\* C29 (as claimed): in a registry that ClockTree.build() accepts, get_freq,
\* enabled and is_gated end after finitely many parent lookups; a walk that
\* comes back to a clock it has already asked never ends by itself (the
\* interpreter aborts it with RecursionError).
C29_QueriesTerminate ==
    (clk_last.op \in {"get_freq", "enabled", "is_gated"} /\ TreeBuild.val) =>
        clk_last.err # "RecursionError"

---------------------------------------------------------------------------
(* Claims about the accessors' operators, checked under SpecOps *)

\* C24 (as claimed): for an accessor x reading n and every integer k, each
\* of x < k, x <= k, x == k, x != k, x >= k and x > k evaluates to what the
\* same comparison of the integers n and k gives.
C24_ComparisonsAgreeWithIntegers ==
    last.op = "compare" =>
        last.res = CASE last.opr = "<" -> last.ret < last.v
                     [] last.opr = "<=" -> last.ret <= last.v
                     [] last.opr = "==" -> last.ret = last.v
                     [] last.opr = "!=" -> last.ret # last.v
                     [] last.opr = ">=" -> last.ret >= last.v
                     [] last.opr = ">" -> last.ret > last.v

\* C25 (as claimed): for a Register reading n, each of +=, -=, *=, //=, %=,
\* &=, |=, ^=, <<=, >>= and **= with operand k writes the value the binary
\* expression x OP k evaluates to, and the register then reads that value.
C25_InPlaceWritesBinaryResult ==
    (last.op = "inplace" /\ last.opr # "/" /\ last.err = "") =>
        /\ last.wrote = Binary(last.opr, last.ret, last.v)
        /\ ReadsAs = Binary(last.opr, last.ret, last.v)

---------------------------------------------------------------------------
(* Claims about deferred writes, checked under Spec *)

\* C30 (as claimed): with WRITE set (alone or with READ), an unforced
\* Register.read() or Field.read() that follows an unforced, not yet flushed
\* write returns the written value (the field's bits of the value the write
\* left in the cache) and leaves the pending write in the cache.
C30_ReadYourWrites ==
    [][(/\ last.op \in {"write", "field_write"}
        /\ ~last.force_write
        /\ BitAnd(cache_flags, WRITE) # 0
        /\ last'.op \in {"read", "field_read"}
        /\ ~last'.force_read) =>
          /\ cached_value' = cached_value
          /\ (last.op = "write" /\ last'.op = "read") => last'.ret = last.v
          /\ last'.op = "read" => last'.ret = cached_value
          /\ last'.op = "field_read" => last'.ret = FieldOf(cached_value, last'.f)
      ]_vars

---------------------------------------------------------------------------
(* Claims about RegisterSimulation, checked under SpecSim *)

\* The timer was armed and had not expired when the last call was made.
WasSleeping == sim.pre_time # 0 /\ sim.pre_time > sim.now

\* The timer was armed and had expired when the last call was made.
WasExpired == sim.pre_time # 0 /\ sim.pre_time <= sim.now

\* Position in the file of the section that was current before the call
PrePosition == IndexOf(SectionNames(sim.file), sim.pre_section)

\* The section due when the last call was made: the target of the pending
\* goto; else the first section for start() and for the update() that
\* follows a start() which found the timer running; else the section after
\* the current one in file order; "" when there is none (the file is at its
\* end, the goto names no section, start() was never called).
DueSection ==
    IF sim.pre_next # "" THEN
        IF IndexOf(SectionNames(sim.file), sim.pre_next) # 0 THEN sim.pre_next
        ELSE ""
    ELSE IF sim.op = "start" \/ (sim.pre_started /\ sim.pre_iter = 0)
         THEN sim.file[1].name
    ELSE IF sim.pre_started /\ sim.pre_iter = PrePosition
            /\ PrePosition \in 1 .. (Len(sim.file) - 1)
         THEN sim.file[PrePosition + 1].name
    ELSE ""

\* The timer is armed and has not expired.
TimerRunning == sim.time # 0 /\ sim.time > sim.now

\* C26: while the timer is armed and unexpired update() runs no section:
\* the current section, the timer and the device are unchanged, no write is
\* issued and no callback is run, whatever watchpoint is set and enabled;
\* the first update() after the timer expires runs the section that is due,
\* which is the current one afterwards unless a callback made an update()
\* of its own; every call of sleep() without argument returns true exactly
\* if it finds the timer armed and unexpired.
C26_UpdateWaitsForTimer ==
    /\ []((sim.op = "update" /\ WasSleeping) =>
            /\ sim.ran = ""
            /\ sim.section = sim.pre_section
            /\ sim.next_section = sim.pre_next
            /\ sim.time = sim.pre_time
            /\ sim.writes = 0
            /\ sim.callbacks = <<>>
            /\ memory = sim.pre_memory)
    /\ []((sim.op = "update" /\ WasExpired /\ DueSection # "") =>
            /\ sim.ran = DueSection
            /\ (sim.nested = "" /\ sim.err = "") => sim.section = DueSection
            /\ sim.nested # "" => sim.section = sim.nested)
    /\ [][SimSleep(0) => (sim'.op = "sleep" /\ sim'.ret = TimerRunning)]_vars

\* The first update() after the timer of section 8 has expired has run
\* section 9, and the callback of a watchpoint set and enabled after start()
\* has armed the timer again.
C26_Witness ==
    /\ sim.op = "update"
    /\ WasExpired
    /\ sim.pre_section = "8"
    /\ sim.ran = "9"
    /\ FieldOf(memory, "A1") = 0
    /\ sim.wp.cb = "sleep"
    /\ sim.callbacks = <<"9">>
    /\ TimerRunning

\* The write options among a section's options
RECURSIVE WritesOf(_)
WritesOf(options) ==
    IF options = <<>> THEN <<>>
    ELSE IF Head(options).k = "write"
         THEN <<Head(options)>> \o WritesOf(Tail(options))
    ELSE WritesOf(Tail(options))

\* The goto targets among a section's options
GotosOf(options) ==
    {options[i].t : i \in {j \in 1 .. Len(options) : options[j].k = "goto"}}

\* A callback of the last call wrote to the device or made an update() that
\* ran a section.
CallbackActed ==
    \/ sim.nested # ""
    \/ sim.callbacks # <<>> /\ sim.wp.cb = "write"

\* The section after the one called name in file order, "" at the end
SectionAfter(name) ==
    IF IndexOf(SectionNames(sim.file), name) \in 1 .. (Len(sim.file) - 1)
    THEN sim.file[IndexOf(SectionNames(sim.file), name) + 1].name
    ELSE ""

\* C27: an update() (or start()) made while the timer is not running runs
\* exactly the section that is due: the next in file order, or the target T
\* of the goto of the section run before, after which the sections following
\* T run (14 with goto=9 is followed by 9, then 10).  Unless an exception
\* comes out of a watchpoint callback, every option of the section run is
\* applied, in order, wherever its goto stands; the goto becomes the pending
\* one and each field holds the last value written to it, unless a callback
\* wrote to the device or made an update() of its own: that update() runs
\* the section due at that point, the target of the goto already applied or
\* the section next in file order.
C27_SectionsInFileOrderWithGoto ==
    (sim.op \in {"start", "update"} /\ ~WasSleeping /\ DueSection # "") =>
        /\ sim.ran = DueSection
        /\ sim.err # "" => (sim.wp.cb = "update" /\ sim.callbacks # <<>>)
        /\ sim.err = "" =>
              /\ sim.applied = OptionsOf(sim.file, sim.ran)
              /\ sim.writes = Len(WritesOf(sim.applied))
        /\ (sim.err = "" /\ sim.nested = "") =>
              /\ \A t \in GotosOf(sim.applied) : sim.next_section = t
              /\ GotosOf(sim.applied) = {} => sim.next_section = ""
        /\ (sim.err = "" /\ ~CallbackActed) =>
              \A i \in 1 .. Len(WritesOf(sim.applied)) :
                  (\A j \in (i + 1) .. Len(WritesOf(sim.applied)) :
                      WritesOf(sim.applied)[j].f # WritesOf(sim.applied)[i].f) =>
                  FieldOf(memory, WritesOf(sim.applied)[i].f) =
                      WritesOf(sim.applied)[i].v
        /\ sim.nested # "" =>
              sim.nested \in GotosOf(OptionsOf(sim.file, sim.ran))
                                \cup {SectionAfter(sim.ran)}
        /\ (sim.pre_section = "14" /\ sim.pre_next = "9") => sim.ran = "9"
        /\ (sim.op = "update" /\ sim.pre_section = "9" /\ sim.pre_next = ""
               /\ sim.pre_iter # 0) => sim.ran = "10"

\* Section 9 has run as the target of the goto that is the first option of
\* section 14, after the sleep of 14 had been applied and had expired, with
\* a watchpoint in the table whose callback has made an update() of its own
\* before it was disabled.
C27_Witness ==
    /\ sim.op = "update"
    /\ sim.file[4].options[1].k = "goto"
    /\ sim.pre_section = "14"
    /\ sim.pre_next = "9"
    /\ sim.pre_time # 0
    /\ sim.ran = "9"
    /\ sim.wp.cb = "update"
    /\ sim.wp.fired
    /\ ~sim.wp.enabled
    /\ sim.callbacks = <<>>

---------------------------------------------------------------------------
(* Claims about the legacy accessor, checked under SpecLegacy *)

\* C28 (as claimed): read_cached() issues one Port read when nothing is
\* cached or FORCE_READ is set, and otherwise issues none and returns the
\* value an earlier read or write left in the cache.
C28_ReadCachedUsesCache ==
    last.op = "read_cached" =>
        /\ last.port_reads =
              (IF last.pre_cached = None \/ BitAnd(cache_flags, FORCE_READ) # 0
               THEN 1 ELSE 0)
        /\ (last.pre_cached # None /\ BitAnd(cache_flags, FORCE_READ) = 0) =>
              last.ret = last.pre_cached

---------------------------------------------------------------------------
(* Claims about cache coherence, checked under SpecCoherent *)

\* C31: under the transparent (DISABLED) or the read-through (READ) policy,
\* with the device changed through this register only, after the first read
\* or write the register's cached_value equals device memory at its address,
\* whatever sequence of Register read/write, Field read/write and flush calls
\* was made.
C31_CacheEqualsDevice ==
    cached_value # None => cached_value = memory

\* A field write under READ that changed the register, served from the cache.
C31_Witness ==
    /\ cache_flags = READ
    /\ last.op = "field_write"
    /\ last.port_reads = 0
    /\ last.port_writes = 1
    /\ memory # last.pre_memory
    /\ cached_value = memory

---------------------------------------------------------------------------
(* Claims about a failing Port, checked under SpecPortFails *)

\* C32 (as claimed): when the Port fails in Register.read or in an immediate
\* Register.write(v), the error propagates and cached_value is what it was
\* before the call; so under READ a later unforced read returns nothing the
\* device did not accept.
C32_FailedAccessKeepsCache ==
    (last.op \in {"read", "write"} /\ last.err # "") =>
        /\ last.err = "PortError"
        /\ cached_value = last.pre_cached

---------------------------------------------------------------------------
(* Claims about validated references, checked under SpecNode *)

\* The queries that follow parent links
ParentQueries == {"get_parent", "get_freq", "clock_get_freq", "enabled", "is_gated"}

SingleParentExists(n) == clocks[n].parent \in Registry \cup {""}

MuxSlotsExist(n) ==
    \A k \in DOMAIN clocks[n].parents : clocks[n].parents[k] \in Registry \cup {""}

\* C33 (as claimed): when ClockTree.build() has returned True, every declared
\* parent name of a registered clock, its single parent as well as every
\* non-None Mux slot, is in the registry, and no get_parent, get_freq, enabled
\* or is_gated query on a registered clock raises UnknownClock.
C33_ValidatedParentsExist ==
    /\ (clk_last.op = "tree_build" /\ clk_last.ok) =>
          \A n \in Registry : SingleParentExists(n) /\ MuxSlotsExist(n)
    /\ (TreeBuild.val /\ clk_last.op \in ParentQueries /\ clk_last.name \in Registry) =>
          clk_last.err # "UnknownClock"

\* C33 (amended): when ClockTree.build() has returned True, every non-None
\* slot of every registered Mux is in the registry and get_parent on a
\* registered Mux does not raise UnknownClock; a query on a registered clock
\* raises UnknownClock only where a single parent names an absent clock.
C33_ValidatedMuxSlotsExist ==
    /\ (clk_last.op = "tree_build" /\ clk_last.ok) =>
          \A n \in Registry : MuxSlotsExist(n)
    /\ (/\ TreeBuild.val
        /\ clk_last.op = "get_parent"
        /\ clk_last.name \in Registry
        /\ clocks[clk_last.name].kind = "Mux") =>
          clk_last.err # "UnknownClock"
    /\ (/\ TreeBuild.val
        /\ clk_last.op \in ParentQueries
        /\ clk_last.name \in Registry
        /\ clk_last.err = "UnknownClock") =>
          \E n \in Registry : ~SingleParentExists(n)

\* A registry with a registered Mux has been validated and the Mux asked for
\* its parent.
C33_Witness ==
    /\ TreeBuild.val
    /\ "x" \in Registry
    /\ clocks["x"].kind = "Mux"
    /\ clk_last.op = "get_parent"
    /\ clk_last.name = "x"
    /\ clk_last.err = ""
    /\ clk_last.parent = "osc2"

---------------------------------------------------------------------------
(* Claims about make_tree on cyclic registries, checked under SpecCycle *)

\* Every registered Mux reads a selector value that has a slot.
SelectorsInMap ==
    \A n \in Registry :
        clocks[n].kind = "Mux" =>
            MuxSelector(clocks[n]).val \in DOMAIN clocks[n].parents

\* C34: with every Mux's selector value in its map, make_tree() returns (it
\* does not recurse without end) even when the declared parent links form a
\* cycle, and every registered clock is the end of at most one path of the
\* returned tree.
C34_MakeTreeTerminates ==
    (clk_last.op = "make_tree" /\ SelectorsInMap) =>
        /\ clk_last.err = ""
        /\ \A p \in clk_last.tree : \A q \in clk_last.tree :
              Leaf(p) = Leaf(q) => p = q
        /\ \A p \in clk_last.tree : Leaf(p) \in Registry

\* A tree made of a registry whose declared links form the cycle
\* mux1 -> gate1 -> mux1, with mux1 selecting osc1.
C34_Witness ==
    /\ clk_last.op = "make_tree"
    /\ SelectorsInMap
    /\ clocks["gate1"].parent = "mux1"
    /\ clocks["mux1"].parents[1] = "gate1"
    /\ <<"osc1", "mux1", "gate1", "gate2">> \in clk_last.tree

---------------------------------------------------------------------------
(* Claims about the frame of the clock queries, checked under SpecTree *)

\* C35: get_freq, get_parent, enabled, is_gated, get_orphans, get_children
\* and make_tree issue no Port write (device memory and the accessors' record
\* of calls are unchanged) and leave every registry entry as it was;
\* ClockTree.build() issues no Port access at all: it reads no field and the
\* register's cache is untouched.
C35_QueriesAreReadOnly ==
    [][clk_last'.op \in {"get_freq", "get_parent", "enabled", "is_gated",
                         "get_orphans", "get_children", "make_tree",
                         "tree_build"} =>
          /\ memory' = memory
          /\ last' = last
          /\ clocks' = clocks
          /\ clk_last'.op = "tree_build" =>
                (clk_last'.reads = 0 /\ cached_value' = cached_value)
      ]_vars

\* make_tree has read a selector from a device that holds a non-zero value.
C35_Witness ==
    /\ clk_last.op = "make_tree"
    /\ clk_last.reads > 0
    /\ clk_last.err = ""
    /\ cached_value = memory
    /\ memory # 0

---------------------------------------------------------------------------
(* The OpenOCD client and its polling thread *)

\* Where a thread stands while it is inside OpenOCDThreadSafe.Exec, after
\* acquire() and before release() has returned.
ExecStates ==
    {"exec_block", "exec_cmd", "exec_readout", "exec_unblock", "exec_release"}

\* The calls that go through Exec, by where the caller stands: a client call
\* (Halt, ReadMemN, WriteMemN, Resume), the Resume() of join(), the
\* Reg('pc').Read() and Resume() of the polling thread, and a client call
\* made by a callback the polling thread runs.
CanCallExec(t) ==
    IF t = "poll"
    THEN \/ ocd.pc[t] \in {"reg_pc", "resume"}
         \/ ocd.pc[t] = "callbacks" /\ ocd.iterated # {}
    ELSE IF t = "main" THEN ocd.pc[t] \in {"idle", "join_resume"}
    ELSE ocd.pc[t] = "idle"

\* Where the caller goes on when its Exec returns.
ExecReturnsTo(t) ==
    CASE ocd.pc[t] = "join_resume" -> "join_wait"
      [] ocd.pc[t] = "reg_pc" -> "iterate"
      [] ocd.pc[t] = "callbacks" -> "callbacks"
      [] ocd.pc[t] = "resume" -> "loop"
      [] OTHER -> "idle"

\* Mutant: Exec does not acquire the lock before it goes on.
ExecAcquireNoLock(t) ==
    /\ CanCallExec(t)
    /\ ocd' = [ocd EXCEPT !.pc[t] = "exec_block",
                          !.ret[t] = ExecReturnsTo(t), !.err[t] = ""]
    /\ UNCHANGED <<memory, cached_value, cache_flags, last, pending, clocks,
                   clk_last, sim>>

\* Exec: self.acquire().  threading.Lock is not reentrant and has no owner:
\* the call waits until the lock is free, whoever took it.
ExecAcquire(t) ==
    /\ CanCallExec(t)
    /\ ocd.lock = ""
    /\ ocd' = [ocd EXCEPT !.lock = t, !.pc[t] = "exec_block",
                          !.ret[t] = ExecReturnsTo(t), !.err[t] = ""]
    /\ UNCHANGED <<memory, cached_value, cache_flags, last, pending, clocks,
                   clk_last, sim>>

\* Exec: self.blocking = True
ExecSetBlocking(t) ==
    /\ ocd.pc[t] = "exec_block"
    /\ ocd' = [ocd EXCEPT !.blocking = TRUE, !.pc[t] = "exec_cmd"]
    /\ UNCHANGED <<memory, cached_value, cache_flags, last, pending, clocks,
                   clk_last, sim>>

\* Exec: super().Exec(Cmd) sends the command and enters Readout
ExecCommand(t) ==
    /\ ocd.pc[t] = "exec_cmd"
    /\ ocd' = [ocd EXCEPT !.reading = @ \cup {t}, !.pc[t] = "exec_readout"]
    /\ UNCHANGED <<memory, cached_value, cache_flags, last, pending, clocks,
                   clk_last, sim>>

\* Exec: super().Exec(Cmd) returns the answer, or raises (the connection is
\* lost, the answer does not parse).  An exception leaves Exec at once: the
\* two statements after the call are not run, so the lock stays held and
\* blocking True.  In a client thread the caller gets the exception.  In the
\* polling thread nothing of run() catches it and the thread ends, unless
\* the call was made by a watchpoint callback that catches it ("caught"):
\* then the callback, and the loop over the table, go on.
ExecReturn(t, outcome) ==
    /\ ocd.pc[t] = "exec_readout"
    /\ outcome = "caught" => (t = "poll" /\ ocd.ret[t] = "callbacks")
    /\ ocd' = [ocd EXCEPT !.reading = @ \ {t},
                          !.err[t] = IF outcome = "return" THEN "" ELSE "Error",
                          !.pc[t] = CASE outcome = "return" -> "exec_unblock"
                                      [] outcome = "caught" -> "callbacks"
                                      [] t = "poll" -> "dead"
                                      [] OTHER -> "idle"]
    /\ UNCHANGED <<memory, cached_value, cache_flags, last, pending, clocks,
                   clk_last, sim>>

\* Exec: self.blocking = False
ExecClearBlocking(t) ==
    /\ ocd.pc[t] = "exec_unblock"
    /\ ocd' = [ocd EXCEPT !.blocking = FALSE, !.pc[t] = "exec_release"]
    /\ UNCHANGED <<memory, cached_value, cache_flags, last, pending, clocks,
                   clk_last, sim>>

\* Exec: self.release(), and the call returns
ExecRelease(t) ==
    /\ ocd.pc[t] = "exec_release"
    /\ ocd' = [ocd EXCEPT !.lock = "", !.pc[t] = ocd.ret[t]]
    /\ UNCHANGED <<memory, cached_value, cache_flags, last, pending, clocks,
                   clk_last, sim>>

\* run(): while not self.quit
RunTest ==
    /\ ocd.pc["poll"] = "loop"
    /\ ocd' = [ocd EXCEPT !.started_quit = ocd.quit,
                          !.pc["poll"] = IF ocd.quit THEN "done" ELSE "acquire"]
    /\ UNCHANGED <<memory, cached_value, cache_flags, last, pending, clocks,
                   clk_last, sim>>

\* run(): self.ocd.acquire()
RunAcquire ==
    /\ ocd.pc["poll"] = "acquire"
    /\ ocd.lock = ""
    /\ ocd' = [ocd EXCEPT !.lock = "poll", !.pc["poll"] = "readout"]
    /\ UNCHANGED <<memory, cached_value, cache_flags, last, pending, clocks,
                   clk_last, sim>>

\* run(): self.ocd.Readout() is entered, and reads self.blocking
RunReadout ==
    /\ ocd.pc["poll"] = "readout"
    /\ ocd' = [ocd EXCEPT !.reading = @ \cup {"poll"},
                          !.saw_blocking = ocd.blocking,
                          !.pc["poll"] = "in_readout"]
    /\ UNCHANGED <<memory, cached_value, cache_flags, last, pending, clocks,
                   clk_last, sim>>

\* run(): Readout() returns None (nothing to read), returns the lines the
\* target sent, or raises (the connection is lost), which ends the thread.
\* With blocking set it would wait in read_some() instead of returning None.
RunReadoutReturn(outcome) ==
    /\ ocd.pc["poll"] = "in_readout"
    /\ outcome = "none" => ~ocd.blocking
    /\ ocd' = [ocd EXCEPT !.reading = @ \ {"poll"},
                          !.lines = (outcome = "lines"),
                          !.err["poll"] = IF outcome = "raise" THEN "Error" ELSE "",
                          !.pc["poll"] = IF outcome = "raise" THEN "dead"
                                         ELSE "release"]
    /\ UNCHANGED <<memory, cached_value, cache_flags, last, pending, clocks,
                   clk_last, sim>>

\* run(): self.ocd.release(), then `if lines and self.client.watchpoint`:
\* client.watchpoint is the bound method, which is always true.
RunRelease ==
    /\ ocd.pc["poll"] = "release"
    /\ ocd' = [ocd EXCEPT !.lock = "",
                          !.pc["poll"] = IF ocd.lines THEN "reg_pc" ELSE "sleep"]
    /\ UNCHANGED <<memory, cached_value, cache_flags, last, pending, clocks,
                   clk_last, sim>>

\* run(): `for address in self.client.watchpoints` makes the iterator over
\* the table, and with an entry in it the first callback is entered.
RunIterate ==
    /\ ocd.pc["poll"] = "iterate"
    /\ ocd' = [ocd EXCEPT !.iterated = ocd.watchpoints,
                          !.late_callback = @ \/ (ocd.started_quit
                                                   /\ ocd.watchpoints # {}),
                          !.pc["poll"] = "callbacks"]
    /\ UNCHANGED <<memory, cached_value, cache_flags, last, pending, clocks,
                   clk_last, sim>>

\* run(): the loop over the table, watchpoints[address].run(pc_address).
\* The callbacks return and the loop ends, which takes a table of the size
\* it had when the loop began; or the thread ends there, with the exception
\* of a callback or with the RuntimeError of an iterator whose dictionary
\* has changed size.  The client calls a callback makes are the Exec steps.
RunCallbacks(outcome) ==
    /\ ocd.pc["poll"] = "callbacks"
    /\ outcome = "return" => ocd.watchpoints = ocd.iterated
    /\ outcome = "raise" => (ocd.iterated # {} \/ ocd.watchpoints # ocd.iterated)
    /\ ocd' = [ocd EXCEPT !.iterated = {},
                          !.pc["poll"] = IF outcome = "raise" THEN "dead"
                                         ELSE "resume"]
    /\ UNCHANGED <<memory, cached_value, cache_flags, last, pending, clocks,
                   clk_last, sim>>

\* run(): time.sleep(0.001)
RunSleep ==
    /\ ocd.pc["poll"] = "sleep"
    /\ ocd' = [ocd EXCEPT !.pc["poll"] = "loop"]
    /\ UNCHANGED <<memory, cached_value, cache_flags, last, pending, clocks,
                   clk_last, sim>>

\* join(timeout): self.quit = True; self.ocd.Resume() comes next.  Nothing
\* is tested first: join() may be called again, after a join() that
\* returned, timed out or raised, and again sets quit and calls Resume().
JoinSetQuit(timed) ==
    /\ ocd.pc["main"] = "idle"
    /\ ocd' = [ocd EXCEPT !.quit = TRUE, !.timed = timed,
                          !.pc["main"] = "join_resume"]
    /\ UNCHANGED <<memory, cached_value, cache_flags, last, pending, clocks,
                   clk_last, sim>>

\* join(timeout): Thread.join(timeout) returns once run() has ended or, with
\* a timeout, when the time is over, the thread running on.
JoinWait ==
    /\ ocd.pc["main"] = "join_wait"
    /\ ocd.pc["poll"] \in {"done", "dead"} \/ ocd.timed
    /\ ocd' = [ocd EXCEPT !.joined = TRUE, !.pc["main"] = "idle"]
    /\ UNCHANGED <<memory, cached_value, cache_flags, last, pending, clocks,
                   clk_last, sim>>

\* RegiceOpenOCD.watchpoint(address, ...): `if self.watchpoints` raises
\* IndexError when the table holds a watchpoint; no lock is held.
Watchpoint(t, address) ==
    /\ t # "poll"
    /\ ocd.pc[t] = "idle"
    /\ ocd' = [ocd EXCEPT !.wp = [op |-> "watchpoint",
                                  err |-> IF ocd.watchpoints # {}
                                          THEN "IndexError" ELSE "",
                                  pre_table |-> ocd.watchpoints,
                                  pre_made |-> ocd.made],
                          !.arg[t] = IF ocd.watchpoints # {} THEN "" ELSE address,
                          !.pc[t] = IF ocd.watchpoints # {} THEN "idle"
                                    ELSE "wp_make"]
    /\ UNCHANGED <<memory, cached_value, cache_flags, last, pending, clocks,
                   clk_last, sim>>

\* watchpoint(): WatchpointOpenOCD(...) is made, the watchpoint of the target
\* with it.
WatchpointMake(t) ==
    /\ ocd.pc[t] = "wp_make"
    /\ ocd' = [ocd EXCEPT !.made = @ + 1, !.pc[t] = "wp_insert"]
    /\ UNCHANGED <<memory, cached_value, cache_flags, last, pending, clocks,
                   clk_last, sim>>

\* watchpoint(): self.watchpoints[address] = watchpoint, and the call returns
WatchpointInsert(t) ==
    /\ ocd.pc[t] = "wp_insert"
    /\ ocd' = [ocd EXCEPT !.watchpoints = @ \cup {ocd.arg[t]},
                          !.arg[t] = "", !.pc[t] = "idle"]
    /\ UNCHANGED <<memory, cached_value, cache_flags, last, pending, clocks,
                   clk_last, sim>>

\* A step of a thread that is inside watchpoint()
WatchpointStep(t) ==
    \/ WatchpointMake(t)
    \/ WatchpointInsert(t)

\* A step of a thread that is inside Exec
ExecStep(t) ==
    \/ ExecSetBlocking(t)
    \/ ExecCommand(t)
    \/ \E outcome \in {"return", "raise", "caught"} : ExecReturn(t, outcome)
    \/ ExecClearBlocking(t)
    \/ ExecRelease(t)

\* A step of the polling thread outside Exec
RunStep ==
    \/ RunTest
    \/ RunAcquire
    \/ RunReadout
    \/ \E outcome \in {"none", "lines", "raise"} : RunReadoutReturn(outcome)
    \/ RunRelease
    \/ RunIterate
    \/ \E outcome \in {"return", "raise"} : RunCallbacks(outcome)
    \/ RunSleep

NextOcd ==
    \/ \E t \in Threads : ExecAcquire(t)
    \/ \E t \in Threads : ExecStep(t)
    \/ RunStep
    \/ \E timed \in BOOLEAN : JoinSetQuit(timed)
    \/ JoinWait
    \/ \E t \in Threads, address \in {"osc0", "pll"} : Watchpoint(t, address)
    \/ \E t \in Threads : WatchpointStep(t)

SpecOcd == Init /\ [][NextOcd]_vars

\* The threads take their steps in turn, and a thread that waits for the lock
\* gets it if the lock is free again and again: the polling thread goes on
\* through run() and the callbacks it runs come to an end, a thread inside
\* Exec goes on through Exec and one inside watchpoint() through
\* watchpoint(), join() goes on to its Resume() and to Thread.join().  A
\* client that stands outside any call is not bound to make one, nor is a
\* callback.
FairOcd ==
    /\ SF_vars(RunStep)
    /\ SF_vars(ocd.pc["poll"] \in {"reg_pc", "resume"} /\ ExecAcquire("poll"))
    /\ SF_vars(ocd.pc["main"] = "join_resume" /\ ExecAcquire("main"))
    /\ \A t \in Threads : WF_vars(ExecStep(t))
    /\ \A t \in Threads : WF_vars(WatchpointStep(t))
    /\ WF_vars(JoinWait)

SpecOcdFair == SpecOcd /\ FairOcd

---------------------------------------------------------------------------
(* Claims about the OpenOCD client *)

\* C36 (as claimed): RegiceOpenOCD holds at most one watchpoint.  A
\* watchpoint() call that finds a watchpoint in the table raises IndexError
\* and any other call raises nothing; so the table never holds more than one
\* entry.
C36_AtMostOneWatchpoint ==
    /\ Cardinality(ocd.watchpoints) <= 1
    /\ (ocd.wp.op = "watchpoint" /\ ocd.wp.pre_table # {}) =>
          ocd.wp.err = "IndexError"
    /\ (ocd.wp.op = "watchpoint" /\ ocd.wp.pre_table = {}) =>
          ocd.wp.err = ""

\* C37 (as claimed): Readout runs only in a thread that holds the lock, so
\* no two threads are inside Readout at once, and the polling thread finds
\* blocking False whenever it runs Readout, in every Readout it is inside:
\* it never blocks while it holds the lock.
C37_PollingReadoutNeverBlocks ==
    /\ \A t \in ocd.reading : ocd.lock = t
    /\ Cardinality(ocd.reading) <= 1
    /\ "poll" \in ocd.reading => ~ocd.blocking
    /\ ocd.lock = "poll" => ~ocd.blocking
    /\ ~ocd.saw_blocking

\* C37 (amended): Readout runs only in a thread that holds the lock, so no
\* two threads are inside Readout at once.  The polling thread finds
\* blocking False whenever the Readout call of its loop (run(), line 167) is
\* entered and for as long as that call lasts; the only Readout in which it
\* holds the lock with blocking True is the one inside an Exec call of its
\* own (Reg('pc').Read(), Resume(), a client call of a callback), where it
\* blocks like any caller of Exec.
C37_ReadoutUnderLock ==
    /\ \A t \in ocd.reading : ocd.lock = t
    /\ Cardinality(ocd.reading) <= 1
    /\ ocd.pc["poll"] = "in_readout" => ("poll" \in ocd.reading /\ ~ocd.blocking)
    /\ ~ocd.saw_blocking
    /\ ("poll" \in ocd.reading /\ ocd.blocking) =>
          ocd.pc["poll"] = "exec_readout"

\* The polling thread is inside the Readout of its loop, with blocking
\* False, after an iteration in which it went through Exec itself (its
\* Resume() returned to the loop), while join() waits for the lock.
C37_Witness ==
    /\ ocd.pc["poll"] = "in_readout"
    /\ ocd.reading = {"poll"}
    /\ ocd.ret["poll"] = "loop"
    /\ ~ocd.blocking
    /\ ocd.pc["main"] = "join_resume"

\* No thread is inside Exec and the polling thread is between two iterations
\* of its loop, or has ended.
NothingInProgress ==
    /\ \A t \in Threads : ocd.pc[t] \notin ExecStates
    /\ ocd.pc["poll"] \in {"loop", "done", "dead"}

\* C38: the lock is never leaked.  Whenever no Exec call and no iteration of
\* the polling loop is in progress, the lock is free and blocking is False,
\* also after an Exec whose command raised.
C38_LockNeverLeaked ==
    NothingInProgress => (ocd.lock = "" /\ ~ocd.blocking)

\* No Exec call of a client thread has raised, the Resume() of join() aside.
OtherExecsComplete ==
    /\ ocd.err["user"] = ""
    /\ ocd.err["main"] = "" \/ ocd.ret["main"] = "join_wait"

\* C39: once join() has set quit, and with the Exec calls of the other
\* threads completing, the loop of run() ends and join() returns; and no
\* callback is run in an iteration that started with quit set.
C39_JoinStopsPolling ==
    /\ [](~ocd.late_callback)
    /\ []OtherExecsComplete =>
          (ocd.quit ~> (ocd.pc["poll"] \in {"done", "dead"} /\ ocd.joined))

=============================================================================
